---- MODULE Spec2Model ----
(***************************************************************************)
(* Model of the note selection and filtering logic of the Obsidian plugin  *)
(* "Minimalist Homepage" (src/main.js): the query filters of the sidebar   *)
(* to-do list and of the to-do notes list, the daily selection and the     *)
(* folder grid.  JavaScript strings are sequences of one-character         *)
(* strings, so that toLowerCase, trim, startsWith, includes and split are  *)
(* computed, not assumed.                                                  *)
(***************************************************************************)
EXTENDS Integers, Sequences, FiniteSets, TLC

VARIABLES
    files,          \* app.vault.getMarkdownFiles(): sequence of TFile records, host order
    folders,        \* the TFolder paths of the vault, host order (folders may be empty)
    settings,       \* this.settings
    locale,         \* moment.locale()
    clock,          \* Date.now() in ticks; moment() is the date of its day
    dailyOut,       \* what the daily display section last rendered
    dailyPrev,      \* what the daily display section rendered the time before
    gridOut,        \* what the folder grid section last rendered
    todoOut,        \* what the sidebar to-do list last rendered
    todoNotesOut,   \* what the to-do notes section last rendered
    statsOut,       \* what the vault stats section last rendered
    tagsOut,        \* what the top tags list last rendered
    unreadable,     \* the paths of the files whose vault.cachedRead rejects
    renders,        \* the calls of renderHomepageContent with reads in flight
    attached,       \* the call whose elements are the content of the container
    recentOut,      \* what the recent edits section last rendered
    modulesOut,     \* what the dynamic note lists area last rendered
    bookmarksOut,   \* what the bookmarks list last rendered
    details,        \* the <details> elements of the folder grid, by key
    lists,          \* the <ul> elements of the folder grid, by key
    links,          \* the 'toggle-more-link' elements of the folder grid, by key
    leaves,         \* the leaves of the workspace
    activeLeaf,     \* the index of the active leaf, 0 when there is none
    bodyClass,      \* whether document.body carries BODY_CLASS_FOR_HOMEPAGE
    loaded          \* whether the plugin is loaded

vars == <<files, folders, settings, locale, clock,
          dailyOut, dailyPrev, gridOut, todoOut, todoNotesOut,
          statsOut, tagsOut, unreadable, renders, attached,
          recentOut, modulesOut, bookmarksOut, details, lists, links,
          leaves, activeLeaf, bodyClass, loaded>>

\* the sections and elements added to the model of the page
pageVars == <<recentOut, modulesOut, bookmarksOut, details, lists, links>>

\* the workspace and the body class
workspaceVars == <<leaves, activeLeaf, bodyClass, loaded>>

\* clock ticks per calendar day
TicksPerDay == 2

\* the last clock value of a run
MaxClock == 3

\* the largest value a limit slider is moved to
MaxLimit == 2

\* the most notes of the catalogue a vault of the folder specification lacks
MaxMissing == 0

(***************************************************************************)
(* JavaScript strings                                                      *)
(***************************************************************************)

UpperLetters ==
    <<"A", "B", "C", "D", "E", "F", "G", "H", "I", "J", "K", "L", "M",
      "N", "O", "P", "Q", "R", "S", "T", "U", "V", "W", "X", "Y", "Z">>

LowerLetters ==
    <<"a", "b", "c", "d", "e", "f", "g", "h", "i", "j", "k", "l", "m",
      "n", "o", "p", "q", "r", "s", "t", "u", "v", "w", "x", "y", "z">>

\* the lower-case letter of each upper-case letter
LowerOf ==
    [c \in {UpperLetters[i] : i \in 1..Len(UpperLetters)} |->
        LowerLetters[CHOOSE i \in 1..Len(UpperLetters) : UpperLetters[i] = c]]

\* String.prototype.toLowerCase on one character
LowerChar(c) == IF c \in DOMAIN LowerOf THEN LowerOf[c] ELSE c

\* String.prototype.toLowerCase
ToLowerCase(s) == [i \in 1..Len(s) |-> LowerChar(s[i])]

\* the white space String.prototype.trim removes
IsSpace(c) == c \in {" ", "\n", "\t", "\r"}

RECURSIVE TrimStart(_)
TrimStart(s) ==
    IF s # <<>> /\ IsSpace(Head(s)) THEN TrimStart(Tail(s)) ELSE s

RECURSIVE TrimEnd(_)
TrimEnd(s) ==
    IF s # <<>> /\ IsSpace(s[Len(s)]) THEN TrimEnd(SubSeq(s, 1, Len(s) - 1)) ELSE s

\* String.prototype.trim
Trim(s) == TrimEnd(TrimStart(s))

\* String.prototype.startsWith
StartsWith(s, p) == Len(p) <= Len(s) /\ SubSeq(s, 1, Len(p)) = p

\* String.prototype.endsWith
EndsWith(s, p) == Len(p) <= Len(s) /\ SubSeq(s, Len(s) - Len(p) + 1, Len(s)) = p

\* String.prototype.includes
Includes(s, p) ==
    \E i \in 1..(Len(s) - Len(p) + 1) : SubSeq(s, i, i + Len(p) - 1) = p

\* String.prototype.substring(1)
Substring1(s) == IF s = <<>> THEN <<>> ELSE Tail(s)

\* String.prototype.lastIndexOf for one character (0 when absent)
LastIndexOf(s, c) ==
    LET found == {i \in 1..Len(s) : s[i] = c}
    IN  IF found = {} THEN 0 ELSE CHOOSE i \in found : \A j \in found : j <= i

\* String.prototype.split(',')
RECURSIVE SplitComma(_)
SplitComma(s) ==
    IF \E i \in 1..Len(s) : s[i] = ","
    THEN LET i == CHOOSE k \in 1..Len(s) : s[k] = "," /\ \A j \in 1..(k - 1) : s[j] # ","
         IN  <<SubSeq(s, 1, i - 1)>> \o SplitComma(SubSeq(s, i + 1, Len(s)))
    ELSE <<s>>

\* value.split(',').map(s => s.trim().toLowerCase()).filter(s => s.length > 0)
ParseList(s) ==
    LET parts == SplitComma(s)
        clean == [i \in 1..Len(parts) |-> ToLowerCase(Trim(parts[i]))]
    IN  SelectSeq(clean, LAMBDA x : Len(x) > 0)

\* Array.prototype.includes on a sequence
SeqIncludes(seq, x) == \E i \in 1..Len(seq) : seq[i] = x

\* the smaller of two numbers
Min(a, b) == IF a <= b THEN a ELSE b

\* the elements of a sequence
Range(seq) == {seq[i] : i \in 1..Len(seq)}

(***************************************************************************)
(* JavaScript values as frontmatter carries them                           *)
(***************************************************************************)

Undefined == [t |-> "undefined"]
Str(s) == [t |-> "string", s |-> s]
Num(n) == [t |-> "number", n |-> n]
Bool(b) == [t |-> "boolean", b |-> b]
Arr(a) == [t |-> "array", a |-> a]

\* ToBoolean: what `if (v)` tests
Truthy(v) ==
    CASE v.t = "undefined" -> FALSE
      [] v.t = "string" -> v.s # <<>>
      [] v.t = "number" -> v.n # 0
      [] v.t = "boolean" -> v.b
      [] OTHER -> TRUE

\* decimal digits of a natural number
RECURSIVE Digits(_)
Digits(n) ==
    LET d == <<"0", "1", "2", "3", "4", "5", "6", "7", "8", "9">>[(n % 10) + 1]
    IN  IF n < 10 THEN <<d>> ELSE Digits(n \div 10) \o <<d>>

\* String(v) for a scalar
ScalarToString(v) ==
    CASE v.t = "undefined" -> <<"u", "n", "d", "e", "f", "i", "n", "e", "d">>
      [] v.t = "string" -> v.s
      [] v.t = "number" -> Digits(v.n)
      [] v.t = "boolean" ->
            IF v.b THEN <<"t", "r", "u", "e">> ELSE <<"f", "a", "l", "s", "e">>

\* Array.prototype.join(',') of the elements' strings
RECURSIVE JoinComma(_)
JoinComma(a) ==
    IF a = <<>> THEN <<>>
    ELSE IF Len(a) = 1 THEN ScalarToString(a[1])
    ELSE ScalarToString(a[1]) \o <<",">> \o JoinComma(Tail(a))

\* String(v)
JSString(v) == IF v.t = "array" THEN JoinComma(v.a) ELSE ScalarToString(v)

\* fm[key]: the property of a frontmatter object, undefined when absent
Prop(fm, key) == IF key \in DOMAIN fm THEN fm[key] ELSE Undefined

(***************************************************************************)
(* Paths: TFile.path, TFile.name, TFile.basename, TFile.parent.path        *)
(***************************************************************************)

\* TAbstractFile.name: the text after the last '/'
NameOf(path) == SubSeq(path, LastIndexOf(path, "/") + 1, Len(path))

\* TFile.basename: the name without its extension
BasenameOf(path) ==
    LET name == NameOf(path)
        dot == LastIndexOf(name, ".")
    IN  IF dot = 0 THEN name ELSE SubSeq(name, 1, dot - 1)

\* TAbstractFile.parent.path: '/' for a child of the vault root
ParentPathOf(path) ==
    LET slash == LastIndexOf(path, "/")
    IN  IF slash = 0 THEN <<"/">> ELSE SubSeq(path, 1, slash - 1)

\* the folders a path lies under
AncestorsOf(path) ==
    {SubSeq(path, 1, i - 1) : i \in {k \in 1..Len(path) : path[k] = "/"}}

\* a TFile with the metadataCache entry of the file:
\* tags are the body tags as cache.tags[].tag gives them (with the '#'),
\* fm is cache.frontmatter, listItems are cache.listItems (task marker, line)
TFile(path, mtime, tags, fm, listItems) ==
    [path |-> path, mtime |-> mtime, tags |-> tags, fm |-> fm, listItems |-> listItems]

NoFrontmatter == <<>>
TagsKey == <<"t", "a", "g", "s">>
FormKey == <<"f", "o", "r", "m">>
ListItem(task, line) == [task |-> task, line |-> line]

(***************************************************************************)
(* Settings                                                                *)
(***************************************************************************)

\* DEFAULT_SETTINGS.todoTagQuery ("#待整理", written here in ASCII)
DefaultTodoTagQuery == <<"#", "t", "o", "d", "o">>

\* DEFAULT_SETTINGS.dailyDisplayMetadataField
DefaultDailyDisplayMetadataField == FormKey

\* excludedTopFolders.split(',').map(f => f.trim().toLowerCase()).filter(f => f.length > 0)
ExcludedFoldersArray(s) == ParseList(s.excludedTopFolders)

\* excludedTopFoldersArray.some(exFolder => filePathLower.startsWith(exFolder + "/"))
InExcludedTopFolder(excluded, path) ==
    \E i \in 1..Len(excluded) : StartsWith(ToLowerCase(path), excluded[i] \o <<"/">>)

(***************************************************************************)
(* Sorting: Array.prototype.sort with a comparator, stable                 *)
(***************************************************************************)

\* the stable sort of seq under a comparator; before holds the pairs <<i, j>>
\* of indices for which the comparator puts seq[i] before seq[j]
SortWith(seq, before) ==
    LET n == Len(seq)
        pos == [i \in 1..n |-> Cardinality({j \in 1..n :
                     \/ <<j, i>> \in before
                     \/ (<<i, j>> \notin before /\ j < i)}) + 1]
    IN  [k \in 1..n |-> seq[CHOOSE i \in 1..n : pos[i] = k]]

\* Array.prototype.slice(0, limit): a negative limit counts from the end
Slice0(seq, limit) ==
    SubSeq(seq, 1, IF limit >= Len(seq) THEN Len(seq)
                   ELSE IF limit >= 0 THEN limit
                   ELSE IF Len(seq) + limit > 0 THEN Len(seq) + limit ELSE 0)

(***************************************************************************)
(* Sidebar to-do list: the source filter and the task collection           *)
(***************************************************************************)

\* the source setting lower-cased, with its white space kept
SidebarSourcesQueryUntrimmed(s) == ToLowerCase(s.todoSidebarSectionSources)

\* sourcesQuery = settings.todoSidebarSectionSources.trim().toLowerCase()
SidebarSourcesQuery(s) == ToLowerCase(Trim(s.todoSidebarSectionSources))

\* fileTags of the sidebar filter: body tags without '#', lower-cased, then
\* the frontmatter tags (array or single value) as lower-cased strings
SidebarFileTags(file) ==
    LET tags == Prop(file.fm, TagsKey)
        body == [i \in 1..Len(file.tags) |-> ToLowerCase(Substring1(file.tags[i]))]
    IN  IF Truthy(tags)
        THEN IF tags.t = "array"
             THEN body \o [i \in 1..Len(tags.a) |-> ToLowerCase(JSString(tags.a[i]))]
             ELSE Append(body, ToLowerCase(JSString(tags)))
        ELSE body

\* getAbstractFileByPath(sourcesQuery) instanceof TFolder
IsTFolderPath(q) == SeqIncludes(folders, q)

\* which branch of the sidebar filter a query takes
SidebarQueryKind(q) ==
    IF q = <<>> THEN "none"
    ELSE IF StartsWith(q, <<"#">>) THEN "tag"
    ELSE IF Includes(q, <<"/">>) \/ IsTFolderPath(q) THEN "folder"
    ELSE "keyword"

\* the predicate the sidebar filter applies to a file
SidebarMatches(q, file) ==
    LET kind == SidebarQueryKind(q)
    IN  CASE kind = "none" -> TRUE
          [] kind = "tag" -> SeqIncludes(SidebarFileTags(file), Substring1(q))
          [] kind = "folder" ->
                LET folderPath == IF EndsWith(q, <<"/">>) THEN q ELSE q \o <<"/">>
                IN  StartsWith(ToLowerCase(file.path), ToLowerCase(folderPath))
          [] kind = "keyword" -> Includes(ToLowerCase(file.path), q)

\* allRelevantFiles after the source filter
SidebarRelevantFiles(s) ==
    SelectSeq(files, LAMBDA f : SidebarMatches(SidebarSourcesQuery(s), f))

\* a list item with any task marker
IsTaskWithAnyMarker(item) == item.task # ""

\* item.task && (item.task === ' ' || item.task === '/')
IsOpenTask(item) == item.task = " " \/ item.task = "/"

\* the tasks of one file, in listItems order
TasksOfFile(file) ==
    LET items == SelectSeq(file.listItems, IsOpenTask)
    IN  [i \in 1..Len(items) |->
            [file |-> file.path, line |-> items[i].line,
             status |-> items[i].task, mtime |-> file.mtime]]

\* the loop over allRelevantFiles: skips excluded folders, collects the tasks
RECURSIVE CollectTasks(_, _)
CollectTasks(relevant, excluded) ==
    IF relevant = <<>> THEN <<>>
    ELSE (IF InExcludedTopFolder(excluded, Head(relevant).path)
          THEN <<>> ELSE TasksOfFile(Head(relevant)))
         \o CollectTasks(Tail(relevant), excluded)

\* the comparator of allTasks.sort: mtime descending, then line ascending
TaskBefore(a, b) ==
    IF a.mtime # b.mtime THEN a.mtime > b.mtime ELSE a.line < b.line

Unrendered == [rendered |-> FALSE]

\* the sidebar to-do section with the limit applied to the collected tasks
\* before they are sorted
RenderTodoSidebarSliceFirst(s) ==
    LET relevant == SidebarRelevantFiles(s)
        collected == CollectTasks(relevant, ExcludedFoldersArray(s))
        cut == Slice0(collected, s.todoSidebarSectionLimit)
        allTasks == SortWith(collected,
                        {p \in (1..Len(collected)) \X (1..Len(collected)) :
                            TaskBefore(collected[p[1]], collected[p[2]])})
    IN  [rendered |-> TRUE,
         sourcesQuery |-> SidebarSourcesQuery(s),
         relevant |-> [i \in 1..Len(relevant) |-> relevant[i].path],
         allTasks |-> allTasks,
         tasksToShow |-> SortWith(cut,
                            {p \in (1..Len(cut)) \X (1..Len(cut)) :
                                TaskBefore(cut[p[1]], cut[p[2]])})]

\* the sidebar to-do section as rendered from the current vault and settings
RenderTodoSidebar(s) ==
    LET relevant == SidebarRelevantFiles(s)
        collected == CollectTasks(relevant, ExcludedFoldersArray(s))
        allTasks == SortWith(collected,
                        {p \in (1..Len(collected)) \X (1..Len(collected)) :
                            TaskBefore(collected[p[1]], collected[p[2]])})
    IN  [rendered |-> TRUE,
         sourcesQuery |-> SidebarSourcesQuery(s),
         relevant |-> [i \in 1..Len(relevant) |-> relevant[i].path],
         allTasks |-> allTasks,
         tasksToShow |-> Slice0(allTasks, s.todoSidebarSectionLimit)]

(***************************************************************************)
(* To-do notes: the query filter                                           *)
(***************************************************************************)

\* query = settings.todoTagQuery.trim()
TodoNotesQuery(s) == Trim(s.todoTagQuery)

\* fileTags of the to-do notes filter: body tags without '#', then the
\* frontmatter tags (array or single value) as lower-cased strings
TodoNotesFileTags(file) ==
    LET tags == Prop(file.fm, TagsKey)
        body == [i \in 1..Len(file.tags) |-> Substring1(file.tags[i])]
    IN  IF Truthy(tags)
        THEN IF tags.t = "array"
             THEN body \o [i \in 1..Len(tags.a) |-> ToLowerCase(JSString(tags.a[i]))]
             ELSE Append(body, ToLowerCase(JSString(tags)))
        ELSE body

\* the branches of the filter with the folder test before the tag test
TodoNotesQueryKindFolderFirst(q) ==
    IF q = <<>> THEN "none"
    ELSE IF Includes(q, <<"/">>) THEN "folder"
    ELSE IF StartsWith(q, <<"#">>) THEN "tag"
    ELSE "keyword"

\* which branch of the to-do notes filter a non-empty query takes
TodoNotesQueryKind(q) ==
    IF q = <<>> THEN "none"
    ELSE IF StartsWith(q, <<"#">>) THEN "tag"
    ELSE IF Includes(q, <<"/">>) THEN "folder"
    ELSE "keyword"

\* the predicate of the filter with the path compared in its own case
TodoNotesMatchesCaseSensitive(q, file) ==
    LET kind == TodoNotesQueryKind(q)
    IN  CASE kind = "none" -> FALSE
          [] kind = "tag" ->
                SeqIncludes(TodoNotesFileTags(file), ToLowerCase(Substring1(q)))
          [] kind = "folder" ->
                LET folderPath == IF EndsWith(ToLowerCase(q), <<"/">>)
                                  THEN ToLowerCase(q) ELSE ToLowerCase(q) \o <<"/">>
                IN  StartsWith(file.path, folderPath)
          [] kind = "keyword" -> Includes(ToLowerCase(file.path), ToLowerCase(q))

\* the predicate the to-do notes filter applies to a file
TodoNotesMatches(q, file) ==
    LET kind == TodoNotesQueryKind(q)
    IN  CASE kind = "none" -> FALSE
          [] kind = "tag" ->
                SeqIncludes(TodoNotesFileTags(file), ToLowerCase(Substring1(q)))
          [] kind = "folder" ->
                LET folderPath == IF EndsWith(ToLowerCase(q), <<"/">>)
                                  THEN ToLowerCase(q) ELSE ToLowerCase(q) \o <<"/">>
                IN  StartsWith(ToLowerCase(file.path), folderPath)
          [] kind = "keyword" -> Includes(ToLowerCase(file.path), ToLowerCase(q))

\* filteredNotes.sort((a, b) => a.stat.mtime - b.stat.mtime)
OlderFirst(a, b) == a.mtime < b.mtime

\* the to-do notes section without the test of an empty query
RenderTodoNotesUnchecked(s) ==
    LET query == TodoNotesQuery(s)
        excluded == ExcludedFoldersArray(s)
        filtered == SelectSeq(files, LAMBDA f : TodoNotesMatches(query, f))
        kept == SelectSeq(filtered, LAMBDA f : ~InExcludedTopFolder(excluded, f.path))
        sorted == SortWith(kept, {p \in (1..Len(kept)) \X (1..Len(kept)) :
                                    OlderFirst(kept[p[1]], kept[p[2]])})
        shown == Slice0(sorted, s.todoFilesLimit)
    IN  [rendered |-> TRUE,
         query |-> query,
         notConfigured |-> FALSE,
         filtered |-> [i \in 1..Len(filtered) |-> filtered[i].path],
         notesToShow |-> [i \in 1..Len(shown) |-> shown[i].path]]

\* the to-do notes section as rendered from the current vault and settings
RenderTodoNotes(s) ==
    LET query == TodoNotesQuery(s)
        excluded == ExcludedFoldersArray(s)
        filtered == SelectSeq(files, LAMBDA f : TodoNotesMatches(query, f))
        kept == SelectSeq(filtered, LAMBDA f : ~InExcludedTopFolder(excluded, f.path))
        sorted == SortWith(kept, {p \in (1..Len(kept)) \X (1..Len(kept)) :
                                    OlderFirst(kept[p[1]], kept[p[2]])})
        shown == Slice0(sorted, s.todoFilesLimit)
    IN  [rendered |-> TRUE,
         query |-> query,
         notConfigured |-> query = <<>>,
         filtered |-> [i \in 1..Len(filtered) |-> filtered[i].path],
         notesToShow |-> IF query = <<>> THEN <<>>
                         ELSE [i \in 1..Len(shown) |-> shown[i].path]]

(***************************************************************************)
(* Daily display: the date seed, the candidates and the selection          *)
(***************************************************************************)

\* the calendar date moment() returns on the day-th day of the run
DateOf(day) ==
    IF 30 + day <= 31
    THEN [year |-> 2024, month |-> 12, date |-> 30 + day]
    ELSE [year |-> 2025, month |-> 1, date |-> day - 1]

\* the calendar day of a clock value
DayOf(t) == t \div TicksPerDay

\* the decimal digits of a locale: moment's postformat of the locales with
\* their own numerals (ar, fa, hi, bn, ...) replaces each ASCII digit
LocaleDigit(loc, d) ==
    IF loc = "ar" THEN <<"U+066" \o d>>[1] ELSE d

\* zero-padded two digits ("MM", "DD")
Pad2(n) == IF n < 10 THEN <<"0">> \o Digits(n) ELSE Digits(n)

\* moment().format("YYYYMMDD") under the locale
FormatYYYYMMDD(loc, d) ==
    LET ascii == Digits(d.year) \o Pad2(d.month) \o Pad2(d.date)
    IN  [i \in 1..Len(ascii) |-> LocaleDigit(loc, ascii[i])]

NaN == [nan |-> TRUE, n |-> 0]
Number(n) == [nan |-> FALSE, n |-> n]

\* the value of an ASCII digit, -1 for any other character
DigitValue(c) ==
    IF \E v \in 0..9 : Digits(v) = <<c>>
    THEN CHOOSE v \in 0..9 : Digits(v) = <<c>>
    ELSE -1

\* parseInt: the number the leading ASCII digits spell, NaN when there are none
RECURSIVE ParseDigits(_, _)
ParseDigits(s, acc) ==
    IF s = <<>> \/ DigitValue(Head(s)) < 0 THEN acc
    ELSE ParseDigits(Tail(s), 10 * acc + DigitValue(Head(s)))

ParseInt(s) ==
    IF s = <<>> \/ DigitValue(Head(s)) < 0 THEN NaN ELSE Number(ParseDigits(s, 0))

\* todaySeed = parseInt(moment().format("YYYYMMDD"))
TodaySeed(loc, t) == ParseInt(FormatYYYYMMDD(loc, DateOf(DayOf(t))))

\* x - Math.floor(x) for x = Math.sin(seed) * 10000, in millionths, for the
\* seeds of the modelled dates (IEEE double values, truncated to six places)
SinFraction(seed) ==
    CASE seed = 20241230 -> 835689
      [] seed = 20241231 -> 661679
      [] seed = 20250101 -> 406043
      [] seed = 20250102 -> 112613
      [] seed = 20250103 -> 843433
      [] seed = 20250104 -> 269

\* a random index taken from the time of the render: Date.now() % length
RandomIndexByClock(seed, n) == Number(clock % n)

\* Math.floor(seededRandom(todaySeed) * candidateNotes.length)
RandomIndex(seed, n) ==
    IF seed.nan THEN NaN ELSE Number((SinFraction(seed.n) * n) \div 1000000)

\* allowedFormsInput
AllowedForms(s) == ParseList(s.dailyDisplayForms)

\* valuesToCheck of a frontmatter value
ValuesToCheck(v) ==
    IF v.t = "array"
    THEN [i \in 1..Len(v.a) |-> ToLowerCase(JSString(v.a[i]))]
    ELSE <<ToLowerCase(JSString(v))>>

\* whether the loop pushes the file to candidateNotes
IsDailyCandidate(file, key, allowed) ==
    LET v == Prop(file.fm, key)
    IN  /\ Truthy(v)
        /\ \E i \in 1..Len(ValuesToCheck(v)) : SeqIncludes(allowed, ValuesToCheck(v)[i])

\* candidateNotes[randomIndex]: the path of the element, <<>> for undefined
CandidateAt(candidates, index) ==
    IF ~index.nan /\ index.n >= 0 /\ index.n < Len(candidates)
    THEN candidates[index.n + 1].path
    ELSE <<>>

\* the daily display section as rendered from the current vault and settings;
\* id is the Date.now() of the id of the content element
RenderDailyDisplay(s, loc, t) ==
    LET key == Trim(s.dailyDisplayMetadataField)
        allowed == AllowedForms(s)
        candidates == SelectSeq(files, LAMBDA f : IsDailyCandidate(f, key, allowed))
        seed == TodaySeed(loc, t)
        index == RandomIndex(seed, Len(candidates))
    IN  IF key = <<>> \/ allowed = <<>>
        THEN [rendered |-> TRUE, id |-> t, state |-> "notConfigured", day |-> DayOf(t),
              candidates |-> <<>>, index |-> NaN, selected |-> <<>>]
        ELSE IF candidates = <<>>
        THEN [rendered |-> TRUE, id |-> t, state |-> "noCandidates", day |-> DayOf(t),
              candidates |-> <<>>, index |-> NaN, selected |-> <<>>]
        ELSE [rendered |-> TRUE, id |-> t,
              state |-> IF CandidateAt(candidates, index) = <<>>
                        THEN "noneSelected" ELSE "selected",
              day |-> DayOf(t),
              candidates |-> [i \in 1..Len(candidates) |-> candidates[i].path],
              index |-> index,
              selected |-> CandidateAt(candidates, index)]

(***************************************************************************)
(* Folder grid                                                             *)
(***************************************************************************)

\* the collation order of String.prototype.localeCompare on the characters
\* of the model: punctuation, digits, letters; case decides only a tie
CollationOrder ==
    <<" ", "_", ".", "/", "#", "0", "1", "2", "3", "4", "5", "6", "7", "8", "9">>
    \o LowerLetters

\* the primary collation weight of each character of CollationOrder
CollationWeight ==
    [c \in {CollationOrder[i] : i \in 1..Len(CollationOrder)} |->
        CHOOSE i \in 1..Len(CollationOrder) : CollationOrder[i] = c]

PrimaryWeight(c) ==
    IF LowerChar(c) \in DOMAIN CollationWeight THEN CollationWeight[LowerChar(c)] ELSE 0

RECURSIVE PrimaryCompare(_, _)
PrimaryCompare(a, b) ==
    IF a = <<>> THEN (IF b = <<>> THEN 0 ELSE -1)
    ELSE IF b = <<>> THEN 1
    ELSE IF PrimaryWeight(Head(a)) < PrimaryWeight(Head(b)) THEN -1
    ELSE IF PrimaryWeight(Head(a)) > PrimaryWeight(Head(b)) THEN 1
    ELSE PrimaryCompare(Tail(a), Tail(b))

\* a.localeCompare(b, locale): negative, zero or positive
LocaleCompare(a, b) ==
    LET primary == PrimaryCompare(a, b)
    IN  IF primary # 0 THEN primary
    ELSE IF a = b THEN 0
    ELSE LET i == CHOOSE k \in 1..Len(a) : a[k] # b[k] /\ \A j \in 1..(k - 1) : a[j] = b[j]
         IN  IF a[i] = LowerChar(a[i]) THEN -1 ELSE 1

\* /^\d/.test(name)
StartsWithDigit(name) == name # <<>> /\ DigitValue(Head(name)) >= 0

\* the comparator without the digit-first rule
TopFolderCompareByLocale(a, b) == LocaleCompare(NameOf(a), NameOf(b))

\* the comparator of topLevelTFolders.sort, on folder paths
TopFolderCompare(a, b) ==
    LET aName == NameOf(a)
        bName == NameOf(b)
        aIsNumeric == StartsWithDigit(aName)
        bIsNumeric == StartsWithDigit(bName)
    IN  IF aIsNumeric /\ ~bIsNumeric THEN -1
        ELSE IF ~aIsNumeric /\ bIsNumeric THEN 1
        ELSE LocaleCompare(aName, bName)

TopFolderBefore(a, b) == TopFolderCompare(a, b) < 0

\* (a, b) => a.name.localeCompare(b.name, ...), on paths
NameBefore(a, b) == LocaleCompare(NameOf(a), NameOf(b)) < 0

\* (a, b) => b.stat.mtime - a.stat.mtime
NewerFirst(a, b) == a.mtime > b.mtime

\* a sequence of paths sorted by name with localeCompare
SortByName(paths) ==
    SortWith(paths, {p \in (1..Len(paths)) \X (1..Len(paths)) : NameBefore(paths[p[1]], paths[p[2]])})

\* root.children filtered by the names as they are written, sorted
TopLevelTFoldersCaseSensitive(s) ==
    LET excluded == ExcludedFoldersArray(s)
        kept == SelectSeq(folders, LAMBDA p :
                    /\ ParentPathOf(p) = <<"/">>
                    /\ ~SeqIncludes(excluded, NameOf(p)))
    IN  SortWith(kept, {p \in (1..Len(kept)) \X (1..Len(kept)) : TopFolderBefore(kept[p[1]], kept[p[2]])})

\* root.children filtered to the folders not excluded, sorted
TopLevelTFolders(s) ==
    LET excluded == ExcludedFoldersArray(s)
        kept == SelectSeq(folders, LAMBDA p :
                    /\ ParentPathOf(p) = <<"/">>
                    /\ ~SeqIncludes(excluded, ToLowerCase(NameOf(p))))
    IN  SortWith(kept, {p \in (1..Len(kept)) \X (1..Len(kept)) : TopFolderBefore(kept[p[1]], kept[p[2]])})

\* notesInThisWholeCategory of a top-level folder
NotesInWholeCategory(folderPath) ==
    SelectSeq(files, LAMBDA f :
        /\ StartsWith(f.path, folderPath \o <<"/">>)
        /\ EndsWith(ToLowerCase(f.path), <<".", "m", "d">>))

PathsOf(fs) == [i \in 1..Len(fs) |-> fs[i].path]

\* subTFolders of a top-level folder: its child folders that hold notes,
\* sorted by name, each with its notes sorted by name
SubTFolders(folderPath) ==
    LET notesInThisWholeCategory == NotesInWholeCategory(folderPath)
        children == SelectSeq(folders, LAMBDA p : ParentPathOf(p) = folderPath)
        withNotes == SelectSeq(children, LAMBDA p :
                        \E i \in 1..Len(notesInThisWholeCategory) :
                            StartsWith(notesInThisWholeCategory[i].path, p \o <<"/">>))
        sorted == SortByName(withNotes)
    IN  [i \in 1..Len(sorted) |->
            [path |-> sorted[i],
             notes |-> SortByName(
                 PathsOf(SelectSeq(notesInThisWholeCategory,
                     LAMBDA f : StartsWith(f.path, sorted[i] \o <<"/">>))))]]

\* the notes of a top-level folder at any depth, but for the one named like
\* the folder, sorted by name
DirectNotesInFolderAnyDepth(folderPath) ==
    SortByName(
        PathsOf(SelectSeq(NotesInWholeCategory(folderPath), LAMBDA f :
            ToLowerCase(BasenameOf(f.path)) # ToLowerCase(NameOf(folderPath)))))

\* directNotesInFolder of a top-level folder, sorted by name
DirectNotesInFolder(folderPath) ==
    SortByName(
        PathsOf(SelectSeq(NotesInWholeCategory(folderPath), LAMBDA f :
            /\ ParentPathOf(f.path) = folderPath
            /\ ToLowerCase(BasenameOf(f.path)) # ToLowerCase(NameOf(folderPath)))))

\* the recently updated notes of a list of files
RecentNotes(fs, s) ==
    IF s.recentNotesInCategoryLimit > 0
    THEN PathsOf(Slice0(SortWith(fs, {p \in (1..Len(fs)) \X (1..Len(fs)) : NewerFirst(fs[p[1]], fs[p[2]])}),
                        s.recentNotesInCategoryLimit))
    ELSE <<>>

\* a list with the first k items marked as overflow as well
PaginateOffByOne(notes, k) ==
    [items |-> [i \in 1..Len(notes) |->
                   [path |-> notes[i], overflow |-> (i - 1) > k]],
     toggle |-> Len(notes) > k]

\* the <ul> of a list of notes: each <li> with its class ('overflow-note-item'
\* when noteIndex >= initialNotesInSubfolderDisplay), and whether the
\* 'toggle-more-link' is created
Paginate(notes, k) ==
    [items |-> [i \in 1..Len(notes) |->
                   [path |-> notes[i], overflow |-> (i - 1) >= k]],
     toggle |-> Len(notes) > k]

\* the folder card of a top-level folder; subLists and directList are the
\* lists as rendered (the list of direct notes is created only when there
\* are direct notes: an empty directList stands for no list)
FolderCard(folderPath, s) ==
    LET subs == SubTFolders(folderPath)
        direct == DirectNotesInFolder(folderPath)
    IN  [folder |-> folderPath,
         subfolders |-> subs,
         subLists |-> [i \in 1..Len(subs) |->
                          Paginate(subs[i].notes, s.initialNotesInSubfolderDisplay)],
         directNotes |-> direct,
         directList |-> Paginate(direct, s.initialNotesInSubfolderDisplay),
         recent |-> RecentNotes(NotesInWholeCategory(folderPath), s)]

\* directRootNotes: the notes whose parent is the vault root, sorted by name
DirectRootNotes ==
    SortByName(PathsOf(SelectSeq(files, LAMBDA f : ParentPathOf(f.path) = <<"/">>)))

\* the folder grid section as rendered from the current vault and settings
RenderFolderGrid(s) ==
    LET withNotes == SelectSeq(TopLevelTFolders(s),
                        LAMBDA p : Len(NotesInWholeCategory(p)) > 0)
        cards == [i \in 1..Len(withNotes) |-> FolderCard(withNotes[i], s)]
        directRootNotes == DirectRootNotes
        foundContentFolders == Len(cards) + (IF Len(directRootNotes) > 0 THEN 1 ELSE 0)
    IN  [rendered |-> TRUE,
         cards |-> cards,
         rootCard |-> Len(directRootNotes) > 0,
         rootNotes |-> directRootNotes,
         rootList |-> Paginate(directRootNotes, s.initialNotesInSubfolderDisplay),
         noFoldersMessage |-> foundContentFolders = 0]

(***************************************************************************)
(* Vault stats: the note count and the word count                          *)
(***************************************************************************)

\* the text of the files of the model, as vault.cachedRead returns it
Disk ==
    <<[path |-> <<"N", "o", "t", "e", "s", "/", "y", ".", "m", "d">>,
       content |-> <<"-", "-", "-", "\n", "t", "a", "g", "s", ":", " ", "a", "\n", "-", "-", "-", "\n", "\n", "o", "n", "e", " ", "t", "w", "o", " ", " ", "t", "h", "r", "e", "e", "\n">>],
      [path |-> <<"N", "o", "t", "e", "s", "/", "z", ".", "m", "d">>, content |-> <<"-", " ", "[", " ", "]", " ", "a", " ", "b", "\n">>],
      [path |-> <<"J", "o", "u", "r", "n", "a", "l", "/", "j", ".", "m", "d">>, content |-> <<"-", "-", "-", " ", "x", " ", "-", "-", "-", " ", "f", "o", "u", "r", " ", "w", "o", "r", "d", "s", " ", "r", "i", "g", "h", "t", " ", "h", "e", "r", "e">>],
      [path |-> <<"J", "o", "u", "r", "n", "a", "l", "O", "l", "d", "/", "k", ".", "m", "d">>, content |-> <<"-", "-", "-", "\n", "-", "-", "-">>],
      [path |-> <<"T", "e", "m", "p", "l", "a", "t", "e", "s", "/", "x", ".", "m", "d">>, content |-> <<"t", "1", " ", "t", "2", " ", "t", "3", " ", "t", "4", " ", "t", "5">>],
      [path |-> <<"a", ".", "m", "d">>,
       content |-> <<"-", " ", "[", " ", "]", " ", "o", "n", "e", "\n", " ", " ", "*", " ", "[", "x", "]", " ", "d", "o", "n", "e", "\n", "-", " ", "[", "/", "]", " ", "t", "w", "o", " ", "w", "o", "r", "d", "s", "\n">>],
      [path |-> <<"b", ".", "m", "d">>,
       content |-> <<"-", "-", "-", "\n", "k", ":", " ", "v", "\n", "-", "-", "-", "\n", "t", "e", "x", "t", "\n", "+", " ", "[", " ", "]", " ", "t", "h", "r", "e", "e">>],
      [path |-> <<"T", "e", "m", "p", "l", "a", "t", "e", "s", "/", "t", ".", "m", "d">>, content |-> <<"-", " ", "[", " ", "]", " ", "t", "p", "l">>]>>

\* the content of a file ('' for a file the model gives no text)
ContentOf(path) ==
    IF \E i \in 1..Len(Disk) : Disk[i].path = path
    THEN Disk[CHOOSE i \in 1..Len(Disk) : Disk[i].path = path].content
    ELSE <<>>

\* content.replace(/^---[\s\S]*?---[\r\n]*/, "")
StripFrontmatter(content) ==
    LET closing == {i \in 4..(Len(content) - 2) :
                       SubSeq(content, i, i + 2) = <<"-", "-", "-">>}
    IN  IF StartsWith(content, <<"-", "-", "-">>) /\ closing # {}
        THEN LET first == CHOOSE i \in closing : \A j \in closing : i <= j
                 rest == SubSeq(content, first + 3, Len(content))
                 breaks == {i \in 1..Len(rest) :
                               \A j \in 1..i : rest[j] \in {"\r", "\n"}}
             IN  SubSeq(rest, Cardinality(breaks) + 1, Len(rest))
        ELSE content

\* text.split(/\s+/).filter(Boolean).length
SplitWordsCount(text) ==
    Cardinality({i \in 1..Len(text) :
                    ~IsSpace(text[i]) /\ (i = 1 \/ IsSpace(text[i - 1]))})

\* what the then-callback of one read adds to currentTotalWords
WordsOfContent(content) ==
    LET contentWithoutFM == Trim(StripFrontmatter(content))
    IN  IF content # <<>> /\ contentWithoutFM # <<>>
        THEN SplitWordsCount(contentWithoutFM) ELSE 0

\* what the read of a file adds to currentTotalWords once it has settled:
\* nothing when the read is rejected
WordsOfRead(path) ==
    IF path \in unreadable THEN 0 ELSE WordsOfContent(ContentOf(path))

RECURSIVE SumWords(_)
SumWords(paths) ==
    IF paths = <<>> THEN 0 ELSE WordsOfRead(Head(paths)) + SumWords(Tail(paths))

\* excludedFromWordcountArray
ExcludedFromWordcountArray(s) == ParseList(s.excludedFromWordcount)

\* filesForTotalNotesCount
FilesForTotalNotesCount(s) ==
    SelectSeq(files, LAMBDA f : ~InExcludedTopFolder(ExcludedFoldersArray(s), f.path))

\* filesForWordCount with the top-folder exclusion left out
FilesForWordCountOfAllFolders(s) ==
    SelectSeq(files, LAMBDA f :
        ~\E i \in 1..Len(ExcludedFromWordcountArray(s)) :
            StartsWith(ToLowerCase(f.path), ExcludedFromWordcountArray(s)[i]))

\* filesForWordCount
FilesForWordCount(s) ==
    SelectSeq(files, LAMBDA f :
        /\ ~InExcludedTopFolder(ExcludedFoldersArray(s), f.path)
        /\ ~\E i \in 1..Len(ExcludedFromWordcountArray(s)) :
              StartsWith(ToLowerCase(f.path), ExcludedFromWordcountArray(s)[i]))

\* the text of the total words element
Calculating == [state |-> "calculating", n |-> 0]
TotalWords(n) == [state |-> "total", n |-> n]

\* the vault stats section once every read it issued has settled
RenderVaultStats(s) ==
    LET counted == FilesForTotalNotesCount(s)
        wordFiles == PathsOf(FilesForWordCount(s))
    IN  [rendered |-> TRUE,
         noteCount |-> Len(counted),
         counted |-> PathsOf(counted),
         wordFiles |-> wordFiles,
         words |-> IF Len(wordFiles) > 0 THEN TotalWords(SumWords(wordFiles))
                   ELSE TotalWords(0)]

(***************************************************************************)
(* Quick access: the top tags                                              *)
(***************************************************************************)

\* String.prototype.replace(/^#/, '')
ReplaceLeadingHash(tag) == IF StartsWith(tag, <<"#">>) THEN Tail(tag) ELSE tag

\* a sequence without the repetitions of its elements (Set insertion order)
Dedupe(seq) ==
    LET firsts == {i \in 1..Len(seq) : \A j \in 1..(i - 1) : seq[j] # seq[i]}
        RECURSIVE Keep(_)
        Keep(i) == IF i > Len(seq) THEN <<>>
                   ELSE (IF i \in firsts THEN <<seq[i]>> ELSE <<>>) \o Keep(i + 1)
    IN  Keep(1)

\* the tags of a file as the tag filters compare them: frontmatter tags
\* without trim and with their '#'
FileUniqueTagsUncleaned(file) ==
    LET fmTags == Prop(file.fm, TagsKey)
        fromFm == IF ~Truthy(fmTags) THEN <<>>
                  ELSE IF fmTags.t = "array"
                  THEN [i \in 1..Len(fmTags.a) |-> ToLowerCase(JSString(fmTags.a[i]))]
                  ELSE <<ToLowerCase(JSString(fmTags))>>
        fromBody == [i \in 1..Len(file.tags) |->
                        ToLowerCase(ReplaceLeadingHash(file.tags[i]))]
    IN  Dedupe(fromFm \o fromBody)

\* fileUniqueTags: the cleaned tags of the frontmatter, then of the body
FileUniqueTags(file) ==
    LET fmTags == Prop(file.fm, TagsKey)
        fromFm == IF ~Truthy(fmTags) THEN <<>>
                  ELSE IF fmTags.t = "array"
                  THEN [i \in 1..Len(fmTags.a) |->
                           ToLowerCase(ReplaceLeadingHash(Trim(JSString(fmTags.a[i]))))]
                  ELSE <<ToLowerCase(ReplaceLeadingHash(Trim(JSString(fmTags))))>>
        fromBody == [i \in 1..Len(file.tags) |->
                        ToLowerCase(ReplaceLeadingHash(file.tags[i]))]
    IN  Dedupe(fromFm \o fromBody)

\* tagCounts.set(cleanedTag, (tagCounts.get(cleanedTag) || 0) + 1) for the
\* tags of one file; tagCounts is the sequence of the Map's entries
RECURSIVE AddTags(_, _)
AddTags(tagCounts, tags) ==
    IF tags = <<>> THEN tagCounts
    ELSE LET tag == Head(tags)
             known == {i \in 1..Len(tagCounts) : tagCounts[i].tag = tag}
         IN  AddTags(
                 IF tag = <<>> THEN tagCounts
                 ELSE IF known = {} THEN Append(tagCounts, [tag |-> tag, count |-> 1])
                 ELSE [tagCounts EXCEPT ![CHOOSE i \in known : TRUE].count = @ + 1],
                 Tail(tags))

\* allMarkdownFiles.forEach(...) of the tag counting
RECURSIVE CountTags(_, _, _)
CountTags(fs, excluded, tagCounts) ==
    IF fs = <<>> THEN tagCounts
    ELSE CountTags(Tail(fs), excluded,
                   IF InExcludedTopFolder(excluded, Head(fs).path) THEN tagCounts
                   ELSE AddTags(tagCounts, FileUniqueTags(Head(fs))))

\* the entries sorted with the tags of equal count in reverse order
SortTagsTiesReversed(entries) ==
    LET n == Len(entries)
        reversed == [i \in 1..n |-> entries[n + 1 - i]]
    IN  SortWith(reversed, {p \in (1..n) \X (1..n) :
                              reversed[p[1]].count > reversed[p[2]].count})

\* Array.from(tagCounts.entries()).sort(([, countA], [, countB]) => countB - countA)
SortTags(entries) ==
    SortWith(entries, {p \in (1..Len(entries)) \X (1..Len(entries)) :
                          entries[p[1]].count > entries[p[2]].count})

\* the top tags list as rendered from the current vault and settings
RenderTopTags(s) ==
    LET tagCounts == CountTags(files, ExcludedFoldersArray(s), <<>>)
    IN  [rendered |-> TRUE,
         tagCounts |-> tagCounts,
         sortedTags |-> Slice0(SortTags(tagCounts), s.topTagsLimit)]

(***************************************************************************)
(* Recent edits, dynamic note lists, bookmarks                             *)
(***************************************************************************)

\* JSON null in the stored data
Null == [t |-> "null"]

\* the recent edits list with the notes sorted oldest first
RenderRecentEditsOldestFirst(s, homepagePath) ==
    LET excluded == ExcludedFoldersArray(s)
        filteredNotes == SelectSeq(files, LAMBDA f :
                            /\ f.path # homepagePath
                            /\ ~InExcludedTopFolder(excluded, f.path))
        sorted == SortWith(filteredNotes,
                      {p \in (1..Len(filteredNotes)) \X (1..Len(filteredNotes)) :
                          OlderFirst(filteredNotes[p[1]], filteredNotes[p[2]])})
    IN  [rendered |-> TRUE,
         notesToShow |-> PathsOf(Slice0(sorted, s.recentFilesLimitSidebar))]

\* the recent edits section as rendered from the current vault and settings;
\* homepagePath is ctx.sourcePath
RenderRecentEdits(s, homepagePath) ==
    LET excluded == ExcludedFoldersArray(s)
        filteredNotes == SelectSeq(files, LAMBDA f :
                            /\ f.path # homepagePath
                            /\ ~InExcludedTopFolder(excluded, f.path))
        sorted == SortWith(filteredNotes,
                      {p \in (1..Len(filteredNotes)) \X (1..Len(filteredNotes)) :
                          NewerFirst(filteredNotes[p[1]], filteredNotes[p[2]])})
    IN  [rendered |-> TRUE,
         notesToShow |-> PathsOf(Slice0(sorted, s.recentFilesLimitSidebar))]

\* a module of dynamicNoteListModules
Module(enabled, userDefinedTitle) ==
    [enabled |-> enabled, userDefinedTitle |-> userDefinedTitle]

\* whether settings.dynamicNoteListModules.forEach(...) throws: the value is
\* not an array, or moduleConfig.enabled is read of a null element
ModulesThrow(s) ==
    \/ s.dynamicNoteListModules.t # "array"
    \/ \E i \in 1..Len(s.dynamicNoteListModules.a) : s.dynamicNoteListModules.a[i] = Null

\* the dynamic note lists area: the placeholders of the enabled modules that
\* come before the element at which forEach throws
RenderDynamicNoteLists(s) ==
    LET modules == IF s.dynamicNoteListModules.t = "array"
                   THEN s.dynamicNoteListModules.a ELSE <<>>
        nulls == {i \in 1..Len(modules) : modules[i] = Null}
        upTo == IF nulls = {} THEN Len(modules)
                ELSE (CHOOSE i \in nulls : \A j \in nulls : i <= j) - 1
        visited == SubSeq(modules, 1, upTo)
        enabled == SelectSeq(visited, LAMBDA m : m.enabled)
    IN  [rendered |-> TRUE,
         threw |-> ModulesThrow(s),
         placeholders |-> [i \in 1..Len(enabled) |-> enabled[i].userDefinedTitle]]

\* the bookmarks list of the quick access section; the bookmarks core plugin
\* is not modelled, the list is the message of a disabled plugin
RenderBookmarks(s) == [rendered |-> TRUE, state |-> "pluginDisabled"]

(***************************************************************************)
(* The elements of the folder grid: collapsibles, lists, toggle links      *)
(***************************************************************************)

\* the ASCII letters and digits
Alphanumerics ==
    Range(UpperLetters) \cup Range(LowerLetters) \cup {Digits(v)[1] : v \in 0..9}

\* String.prototype.replace(/[^a-zA-Z0-9]/g, '')
StripNonAlphanumerics(s) == SelectSeq(s, LAMBDA c : c \in Alphanumerics)

\* String.prototype.slice(-n)
SliceLast(s, n) == IF Len(s) <= n THEN s ELSE SubSeq(s, Len(s) - n + 1, Len(s))

\* uniqueFolderIdPart of the card of a folder created at time t
UniqueFolderIdPart(folderPath, t) ==
    StripNonAlphanumerics(NameOf(folderPath)) \o SliceLast(Digits(t), 5)

\* the keys of the elements of the grid: <<card, "sub", subIndex + 1>> for the
\* list of a subfolder, <<card, "direct", 0>> for the list of the direct
\* notes, <<0, "root", 0>> for the list of the root notes
SubKey(c, i) == <<c, "sub", i>>
DirectKey(c) == <<c, "direct", 0>>
RootKey == <<0, "root", 0>>

\* the keys of one card in document order
CardKeys(grid, c) ==
    [i \in 1..Len(grid.cards[c].subfolders) |-> SubKey(c, i)]
        \o (IF Len(grid.cards[c].directNotes) > 0 THEN <<DirectKey(c)>> ELSE <<>>)

\* the keys of the <ul> elements of the grid in document order
RECURSIVE ListKeysFrom(_, _)
ListKeysFrom(grid, c) ==
    IF c > Len(grid.cards)
    THEN (IF grid.rootCard THEN <<RootKey>> ELSE <<>>)
    ELSE CardKeys(grid, c) \o ListKeysFrom(grid, c + 1)

ListKeys(grid) == IF grid.rendered THEN ListKeysFrom(grid, 1) ELSE <<>>

\* the keys of the <details class="collapsible-section"> elements
DetailsKeys(grid) == {k \in Range(ListKeys(grid)) : k # RootKey}

\* the <ul> as rendered of a key
ListOf(grid, k) ==
    IF k = RootKey THEN grid.rootList
    ELSE IF k[2] = "direct" THEN grid.cards[k[1]].directList
    ELSE grid.cards[k[1]].subLists[k[3]]

\* the id attribute of the <ul> of a key, for elements created at time t
ListId(grid, k, t) ==
    IF k = RootKey
    THEN <<"r", "n", "l", "-", "r", "o", "o", "t", "n", "o", "t", "e", "s", "-">> \o SliceLast(Digits(t), 5)
    ELSE IF k[2] = "direct"
    THEN <<"d", "n", "l", "-">> \o UniqueFolderIdPart(grid.cards[k[1]].folder, t)
    ELSE <<"s", "f", "l", "-">> \o UniqueFolderIdPart(grid.cards[k[1]].folder, t)
             \o <<"-">> \o Digits(k[3] - 1)

\* getLocalizedString
Localized(loc, strings) == IF loc = "zh-cn" THEN strings.zh ELSE strings.en

\* the texts of a toggle link (the Chinese texts are written in ASCII)
ViewAllText(loc, totalNotes, initialDisplayCount) ==
    Localized(loc,
        [en |-> <<"V", "i", "e", "w", " ", "a", "l", "l", " ">> \o totalNotes \o <<" ", "n", "o", "t", "e", "s", " ", "(", "s", "h", "o", "w", "i", "n", "g", " ">>
                    \o initialDisplayCount \o <<")">>,
         zh |-> <<"[", "z", "h", "]", " ", "V", "i", "e", "w", " ", "a", "l", "l", " ">> \o totalNotes \o <<" ", "(", "s", "h", "o", "w", "i", "n", "g", " ">>
                    \o initialDisplayCount \o <<")">>])
CollapseText(loc) ==
    Localized(loc, [en |-> <<"C", "o", "l", "l", "a", "p", "s", "e", " ", "s", "o", "m", "e", " ", "n", "o", "t", "e", "s">>, zh |-> <<"[", "z", "h", "]", " ", "C", "o", "l", "l", "a", "p", "s", "e", " ", "s", "o", "m", "e", " ", "n", "o", "t", "e", "s">>])

\* Number.prototype.toString
NumToString(n) == IF n < 0 THEN <<"-">> \o Digits(0 - n) ELSE Digits(n)

\* String(v) of the result of parseInt
NumberToString(v) == IF v.nan THEN <<"N", "a", "N">> ELSE NumToString(v.n)

\* parseInt of a string with an optional minus sign
ParseIntSigned(s) ==
    IF s # <<>> /\ Head(s) = "-"
    THEN (IF ParseInt(Tail(s)).nan THEN NaN ELSE Number(0 - ParseInt(Tail(s)).n))
    ELSE ParseInt(s)

\* the <details> elements a render creates: closed, listening to 'toggle'
\* when setupAccordion registers its handler
NewDetails(grid, s) ==
    [k \in DetailsKeys(grid) |->
        [open |-> FALSE,
         listening |-> s.accordionModeForDetails \/ s.globalAccordionMode]]

\* the <ul> elements a render creates; the cards of one render are created
\* within one clock tick, so Date.now() is the same for all of them
NewLists(grid, t) ==
    [k \in Range(ListKeys(grid)) |->
        [id |-> ListId(grid, k, t),
         classes |-> {"notes-list", "hide-overflow-notes"}]]

\* the 'toggle-more-link' elements a render creates
NewLinks(grid, s, loc, t) ==
    [k \in {q \in Range(ListKeys(grid)) : ListOf(grid, q).toggle} |->
        [listId |-> ListId(grid, k, t),
         totalNotes |-> NumToString(Len(ListOf(grid, k).items)),
         initialDisplayCount |-> NumToString(s.initialNotesInSubfolderDisplay),
         text |-> ViewAllText(loc, NumToString(Len(ListOf(grid, k).items)),
                              NumToString(s.initialNotesInSubfolderDisplay))]]

(***************************************************************************)
(* Settings: DEFAULT_SETTINGS, loadSettings, saveSettings                  *)
(***************************************************************************)

\* DEFAULT_SETTINGS.homepageFilePath
DefaultHomepageFilePath == <<"H", "o", "m", "e", ".", "m", "d">>

\* DEFAULT_SETTINGS (the fields the modelled sections read); the Chinese
\* defaults of dailyDisplayForms and todoTagQuery are written in ASCII
DefaultSettings ==
    [homepageFilePath |-> DefaultHomepageFilePath,
     dynamicNoteListModules |-> Arr(<<>>),
     accordionModeForDetails |-> TRUE,
     globalAccordionMode |-> TRUE,
     showRecentEdits |-> TRUE,
     recentFilesLimitSidebar |-> 7,
     showQuickAccessBookmarks |-> TRUE,
     showDailyDisplay |-> TRUE,
     dailyDisplayMetadataField |-> DefaultDailyDisplayMetadataField,
     dailyDisplayForms |-> <<"p", "o", "e", "m", ",", "e", "s", "s", "a", "y">>,
     showFolderGrid |-> TRUE,
     excludedTopFolders |-> <<".", "o", "b", "s", "i", "d", "i", "a", "n", ",", ".", "t", "r", "a", "s", "h", ",", "A", "t", "t", "a", "c", "h", "m", "e", "n", "t", ",", "S", "c", "r", "i", "p", "t", "s">>,
     recentNotesInCategoryLimit |-> 5,
     initialNotesInSubfolderDisplay |-> 5,
     showVaultStats |-> TRUE,
     excludedFromWordcount |-> <<>>,
     showTodoSidebarSection |-> TRUE,
     todoSidebarSectionSources |-> <<>>,
     todoSidebarSectionLimit |-> 7,
     showTodoNotes |-> TRUE,
     todoTagQuery |-> DefaultTodoTagQuery,
     todoFilesLimit |-> 5,
     showQuickAccess |-> TRUE,
     showQuickAccessTopTags |-> TRUE,
     topTagsLimit |-> 10]

\* the value of a text field or the default when it is empty (value || DEFAULT)
OrDefault(value, default) == IF value = <<>> THEN default ELSE value

\* the last content the daily display showed before the current one
RememberDaily == IF dailyOut.rendered THEN dailyOut ELSE dailyPrev

\* a leaf: the type of its view, the path of the file of the view (<<>> for
\* none), the path of the file an openFile call is loading into it, and
\* whether navigateToHomepage created it
Leaf(type, file, opening, byPlugin) ==
    [type |-> type, file |-> file, opening |-> opening, byPlugin |-> byPlugin]

\* workspace.getActiveFile(): the path of the file of the active leaf
ActiveFile == IF activeLeaf = 0 THEN <<>> ELSE leaves[activeLeaf].file

\* whether a Markdown view shows the file of a path
ShownInMarkdownView(path) ==
    \E l \in 1..Len(leaves) : leaves[l].type = "markdown" /\ leaves[l].file = path

\* saveSettings: stores the settings; rerenderHomepageIfActive rebuilds the
\* view of the homepage when it is the active file, which discards the
\* rendered sections until the code block is processed again
SaveSettings(new) ==
    /\ settings' = new
    /\ IF ActiveFile # <<>> /\ ActiveFile = new.homepageFilePath
           /\ leaves[activeLeaf].type = "markdown"
       THEN /\ dailyPrev' = RememberDaily
            /\ dailyOut' = Unrendered
            /\ gridOut' = Unrendered
            /\ todoOut' = Unrendered
            /\ todoNotesOut' = Unrendered
            /\ statsOut' = Unrendered
            /\ tagsOut' = Unrendered
            /\ recentOut' = Unrendered
            /\ modulesOut' = Unrendered
            /\ bookmarksOut' = Unrendered
            /\ details' = <<>>
            /\ lists' = <<>>
            /\ links' = <<>>
       ELSE UNCHANGED <<dailyOut, dailyPrev, gridOut, todoOut, todoNotesOut,
                        statsOut, tagsOut, pageVars>>
    /\ UNCHANGED <<files, folders, locale, clock, unreadable, renders, attached,
                   workspaceVars>>

\* no section is rendered
InitPage ==
    /\ recentOut = Unrendered
    /\ modulesOut = Unrendered
    /\ bookmarksOut = Unrendered
    /\ details = <<>>
    /\ lists = <<>>
    /\ links = <<>>

\* the plugin is loaded and the one leaf of the workspace shows the homepage
\* note in a Markdown view: onload has applied the body class
InitOnHomepage ==
    /\ leaves = <<Leaf("markdown", settings.homepageFilePath, <<>>, FALSE)>>
    /\ activeLeaf = 1
    /\ bodyClass = TRUE
    /\ loaded = TRUE

(***************************************************************************)
(* The inputs of the model: vaults, and the texts typed into the settings  *)
(***************************************************************************)

\* a sequence without its k-th element (the whole sequence for k = 0)
Without(seq, k) == [i \in 1..(Len(seq) - (IF k = 0 THEN 0 ELSE 1)) |->
                        IF k = 0 \/ i < k THEN seq[i] ELSE seq[i + 1]]

\* the subsequences of a sequence, in its order
SubSeqs(seq) ==
    {SelectSeq([i \in 1..Len(seq) |-> <<i, seq[i]>>], LAMBDA p : p[1] \in keep) :
        keep \in SUBSET (1..Len(seq))}

Second(pairs) == [i \in 1..Len(pairs) |-> pairs[i][2]]

\* the folders of a vault holding the files fs, in the order of catalog,
\* with the folders of always (folders that exist even when they are empty)
FoldersOf(fs, catalog, always) ==
    SelectSeq(catalog, LAMBDA p :
        \/ p \in always
        \/ \E i \in 1..Len(fs) : p \in AncestorsOf(fs[i].path))

\* the notes of the vaults of the query specification
QueryCatalog ==
    <<TFile(<<"P", "r", "o", "j", "e", "c", "t", "s", "/", "A", "l", "p", "h", "a", "/", "p", "l", "a", "n", ".", "m", "d">>, 3, <<<<"#", "T", "o", "d", "o">>>>, NoFrontmatter,
            <<ListItem(" ", 0), ListItem("x", 1), ListItem("/", 4)>>),
      TFile(<<"P", "r", "o", "j", "e", "c", "t", "s", "O", "l", "d", "/", "x", ".", "m", "d">>, 1, <<>>, TagsKey :> Str(<<"#", "t", "o", "d", "o">>),
            <<ListItem("/", 2)>>),
      TFile(<<"t", "o", "d", "o", ".", "m", "d">>, 3, <<<<"#", "t", "o", "d", "o">>, <<"#", "a", "/", "b">>>>,
            TagsKey :> Arr(<<Str(<<"W", "o", "r", "k">>), Str(<<"t", "o", "d", "o">>)>>),
            <<ListItem(" ", 0)>>),
      TFile(<<"T", "e", "m", "p", "l", "a", "t", "e", "s", "/", "t", ".", "m", "d">>, 2, <<>>, TagsKey :> Str(<<"T", "O", "D", "O">>),
            <<ListItem(" ", 5)>>),
      TFile(<<"i", "n", "b", "o", "x", "/", "a", ".", "m", "d">>, 4, <<>>, TagsKey :> Str(<<>>),
            <<ListItem("", 0), ListItem("x", 1)>>),
      TFile(<<"o", "l", "d", "/", "i", "n", "b", "o", "x", ".", "m", "d">>, 2, <<<<"#", "W", "o", "r", "k">>>>, NoFrontmatter, <<>>)>>

QueryFolderCatalog ==
    <<<<"P", "r", "o", "j", "e", "c", "t", "s">>, <<"P", "r", "o", "j", "e", "c", "t", "s", "/", "A", "l", "p", "h", "a">>, <<"P", "r", "o", "j", "e", "c", "t", "s", "O", "l", "d">>, <<"T", "e", "m", "p", "l", "a", "t", "e", "s">>, <<"i", "n", "b", "o", "x">>, <<"o", "l", "d">>>>

\* the texts typed into "Sidebar To-Do Sources"
SourcesInputs ==
    {<<>>, <<" ", " ">>, <<"#", "t", "o", "d", "o">>, <<" ", "#", "T", "o", "D", "o", " ">>, <<"#", "a", "/", "b">>, <<"P", "r", "o", "j", "e", "c", "t", "s", "/">>, <<"p", "r", "o", "j", "e", "c", "t", "s", "/", "a", "l", "p", "h", "a">>,
     <<"i", "n", "b", "o", "x">>, <<"t", "o", "d", "o">>}

\* the texts typed into "To-Do Notes Query"
TodoQueryInputs ==
    {<<>>, <<"#", "t", "o", "d", "o">>, <<" ", "#", "T", "o", "D", "o", " ">>, <<"#", "w", "o", "r", "k">>, <<"#", "a", "/", "b">>, <<"P", "r", "o", "j", "e", "c", "t", "s", "/">>, <<"p", "r", "o", "j", "e", "c", "t", "s", "/", "a", "l", "p", "h", "a">>,
     <<"i", "n", "b", "o", "x">>, <<"T", "o", "d", "o">>}

\* the texts typed into "Excluded Top-Level Folders"
ExcludedInputs == {<<>>, <<" ", "t", "e", "m", "p", "l", "a", "t", "e", "s", " ", ",", " ">>}

(***************************************************************************)
(* Actions                                                                 *)
(***************************************************************************)

\* the code block processor runs in a view of the homepage note and calls
\* renderHomepageContent, which empties the container and renders every
\* enabled section from the current vault, settings, locale and date, in the
\* order of the source; the forEach of the dynamic note lists is not inside a
\* try, so a throw of it ends the function before the sections after it
RenderHomepageContent ==
    /\ ShownInMarkdownView(settings.homepageFilePath)
    /\ LET s == settings
           reached == ~ModulesThrow(s)
           grid == IF s.showFolderGrid /\ reached THEN RenderFolderGrid(s) ELSE Unrendered
       IN  /\ dailyPrev' = RememberDaily
           /\ dailyOut' = IF s.showDailyDisplay
                          THEN RenderDailyDisplay(s, locale, clock) ELSE Unrendered
           /\ modulesOut' = RenderDynamicNoteLists(s)
           /\ gridOut' = grid
           /\ details' = NewDetails(grid, s)
           /\ lists' = NewLists(grid, clock)
           /\ links' = NewLinks(grid, s, locale, clock)
           /\ statsOut' = IF s.showVaultStats /\ reached
                          THEN RenderVaultStats(s) ELSE Unrendered
           /\ todoOut' = IF s.showTodoSidebarSection /\ reached
                         THEN RenderTodoSidebar(s) ELSE Unrendered
           /\ todoNotesOut' = IF s.showTodoNotes /\ reached
                              THEN RenderTodoNotes(s) ELSE Unrendered
           /\ recentOut' = IF s.showRecentEdits /\ reached
                           THEN RenderRecentEdits(s, s.homepageFilePath) ELSE Unrendered
           /\ tagsOut' = IF s.showQuickAccess /\ s.showQuickAccessTopTags /\ reached
                         THEN RenderTopTags(s) ELSE Unrendered
           /\ bookmarksOut' = IF s.showQuickAccess /\ s.showQuickAccessBookmarks /\ reached
                              THEN RenderBookmarks(s) ELSE Unrendered
    /\ UNCHANGED <<files, folders, settings, locale, clock, unreadable, renders, attached,
                   workspaceVars>>

\* onChange of "Sidebar To-Do Sources"
SetTodoSidebarSectionSources ==
    \E value \in SourcesInputs :
        SaveSettings([settings EXCEPT !.todoSidebarSectionSources = Trim(value)])

\* onChange of "To-Do Notes Query"
SetTodoTagQuery ==
    \E val \in TodoQueryInputs :
        SaveSettings([settings EXCEPT !.todoTagQuery = OrDefault(val, DefaultTodoTagQuery)])

\* onChange of "Excluded Top-Level Folders"
SetExcludedTopFolders ==
    \E value \in ExcludedInputs :
        SaveSettings([settings EXCEPT !.excludedTopFolders = value])

\* onChange of the "Sidebar To-Do Limit" slider
SetTodoSidebarSectionLimit ==
    \E value \in 1..MaxLimit :
        SaveSettings([settings EXCEPT !.todoSidebarSectionLimit = value])

\* onChange of the "To-Do Notes Limit" slider
SetTodoFilesLimit ==
    \E val \in 1..MaxLimit :
        SaveSettings([settings EXCEPT !.todoFilesLimit = val])

\* the host clock advances
Tick ==
    /\ clock < MaxClock
    /\ clock' = clock + 1
    /\ UNCHANGED <<files, folders, settings, locale,
                   dailyOut, dailyPrev, gridOut, todoOut, todoNotesOut,
                   statsOut, tagsOut, unreadable, renders, attached,
                   pageVars, workspaceVars>>

(***************************************************************************)
(* The query specification: the sidebar to-do list and the to-do notes     *)
(***************************************************************************)

InitQuery ==
    /\ \E k \in 0..Len(QueryCatalog) : files = Without(QueryCatalog, k)
    /\ folders = FoldersOf(files, QueryFolderCatalog, {})
    /\ \E sources \in {<<>>, <<" ", " ">>}, limit \in 1..MaxLimit :
          settings = [DefaultSettings EXCEPT
                         !.showDailyDisplay = FALSE,
                         !.showFolderGrid = FALSE,
                         !.showVaultStats = FALSE,
                         !.showQuickAccess = FALSE,
                         !.todoSidebarSectionSources = sources,
                         !.todoSidebarSectionLimit = limit,
                         !.todoFilesLimit = limit]
    /\ locale = "en"
    /\ clock = 0
    /\ dailyOut = Unrendered
    /\ dailyPrev = Unrendered
    /\ gridOut = Unrendered
    /\ todoOut = Unrendered
    /\ todoNotesOut = Unrendered
    /\ statsOut = Unrendered
    /\ tagsOut = Unrendered
    /\ unreadable = {}
    /\ renders = <<>>
    /\ attached = 0
    /\ InitPage
    /\ InitOnHomepage

NextQuery ==
    \/ RenderHomepageContent
    \/ SetTodoSidebarSectionSources
    \/ SetTodoTagQuery
    \/ SetExcludedTopFolders
    \/ SetTodoSidebarSectionLimit
    \/ SetTodoFilesLimit

SpecQuery == InitQuery /\ [][NextQuery]_vars

(***************************************************************************)
(* Properties of the query filters                                         *)
(***************************************************************************)

\* the notes of the vault
FileSet == Range(files)

\* a tag without its leading '#'
StripHash(tag) == IF StartsWith(tag, <<"#">>) THEN Tail(tag) ELSE tag

\* the entries of the frontmatter 'tags' field: a string or an array of strings
FrontmatterTagEntries(file) ==
    LET tags == Prop(file.fm, TagsKey)
    IN  CASE tags.t = "string" -> {tags.s}
          [] tags.t = "array" -> {JSString(tags.a[i]) : i \in 1..Len(tags.a)}
          [] OTHER -> {}

\* the combined tag set of a note: body tags and frontmatter tags, each
\* lower-cased and without a leading '#'
CombinedTagSet(file) ==
    {ToLowerCase(StripHash(t)) : t \in Range(file.tags) \cup FrontmatterTagEntries(file)}

\* the notes a tag query selects when it is matched against the combined set
CombinedTagSelection(q) ==
    {f.path : f \in {g \in FileSet : ToLowerCase(Substring1(q)) \in CombinedTagSet(g)}}

\* C1: for every query that starts with '#', in the sidebar to-do source
\* filter and in the to-do notes filter, a note is selected if and only if
\* the query's tag (the text after '#', lower-cased) is a member of the
\* note's combined tag set (body tags and frontmatter tags, lower-cased,
\* leading '#' stripped).
C1_TagQuerySelectsCombinedTags ==
    /\ (todoOut.rendered /\ StartsWith(todoOut.sourcesQuery, <<"#">>))
          => Range(todoOut.relevant) = CombinedTagSelection(todoOut.sourcesQuery)
    /\ (todoNotesOut.rendered /\ StartsWith(todoNotesOut.query, <<"#">>))
          => Range(todoNotesOut.filtered) = CombinedTagSelection(todoNotesOut.query)

\* the notes whose lower-cased path starts with the lower-cased query, with
\* a '/' appended when the query does not end in one
PrefixSelection(q) ==
    LET prefix == IF EndsWith(q, <<"/">>) THEN ToLowerCase(q) ELSE ToLowerCase(q) \o <<"/">>
    IN  {f.path : f \in {g \in FileSet : StartsWith(ToLowerCase(g.path), prefix)}}

\* the notes whose lower-cased path contains the lower-cased query
KeywordSelection(q) ==
    {f.path : f \in {g \in FileSet : Includes(ToLowerCase(g.path), ToLowerCase(q))}}

\* the notes whose tag list, as the sidebar filter builds it, holds the tag
SidebarTagSelection(q) ==
    {f.path : f \in {g \in FileSet : SeqIncludes(SidebarFileTags(g), Substring1(q))}}

\* the notes whose tag list, as the to-do notes filter builds it, holds the tag
TodoNotesTagSelection(q) ==
    {f.path : f \in {g \in FileSet :
        SeqIncludes(TodoNotesFileTags(g), ToLowerCase(Substring1(q)))}}

\* the kind of a non-empty query as the query string alone decides it
KindByString(q) ==
    IF StartsWith(q, <<"#">>) THEN "tag"
    ELSE IF Includes(q, <<"/">>) THEN "folder"
    ELSE "keyword"

\* the kind of a non-empty sidebar query: a query without '#' and '/' that is
\* the path of a folder of the vault is a folder query as well
KindInSidebar(q) ==
    IF KindByString(q) = "keyword" /\ q \in Range(folders) THEN "folder"
    ELSE KindByString(q)

\* the selection of a query of the given kind
SelectionOfKind(kind, q, tagSelection) ==
    CASE kind = "tag" -> tagSelection
      [] kind = "folder" -> PrefixSelection(q)
      [] kind = "keyword" -> KeywordSelection(q)

\* C2 as stated: the kind of a non-empty query is decided only by the query
\* string, in the order tag, folder, keyword, in both filters; a keyword
\* query selects exactly the notes whose lower-cased path contains it.
C2_KindDecidedByStringOnly ==
    /\ (todoOut.rendered /\ todoOut.sourcesQuery # <<>>)
          => Range(todoOut.relevant) =
                SelectionOfKind(KindByString(todoOut.sourcesQuery), todoOut.sourcesQuery,
                                SidebarTagSelection(todoOut.sourcesQuery))
    /\ (todoNotesOut.rendered /\ todoNotesOut.query # <<>>)
          => Range(todoNotesOut.filtered) =
                SelectionOfKind(KindByString(todoNotesOut.query), todoNotesOut.query,
                                TodoNotesTagSelection(todoNotesOut.query))

\* C2 amended: in the to-do notes filter the kind is decided by the query
\* string alone, in the order tag, folder, keyword; in the sidebar filter a
\* query without leading '#' is a folder query when it contains '/' or is
\* itself (trimmed, lower-cased) the path of an existing folder, and is a
\* keyword query otherwise.
C2_KindOrderWithFolderLookup ==
    /\ (todoOut.rendered /\ todoOut.sourcesQuery # <<>>)
          => Range(todoOut.relevant) =
                SelectionOfKind(KindInSidebar(todoOut.sourcesQuery), todoOut.sourcesQuery,
                                SidebarTagSelection(todoOut.sourcesQuery))
    /\ (todoNotesOut.rendered /\ todoNotesOut.query # <<>>)
          => Range(todoNotesOut.filtered) =
                SelectionOfKind(KindByString(todoNotesOut.query), todoNotesOut.query,
                                TodoNotesTagSelection(todoNotesOut.query))

\* a render in which the sidebar took the query "inbox" as the folder inbox/
\* (leaving old/inbox.md out) and the to-do notes took "#a/b" as a tag
C2_Witness ==
    /\ todoOut.rendered /\ todoNotesOut.rendered
    /\ todoOut.sourcesQuery = <<"i", "n", "b", "o", "x">>
    /\ todoOut.relevant = <<<<"i", "n", "b", "o", "x", "/", "a", ".", "m", "d">>>>
    /\ <<"o", "l", "d", "/", "i", "n", "b", "o", "x", ".", "m", "d">> \in {f.path : f \in FileSet}
    /\ todoNotesOut.query = <<"#", "a", "/", "b">>
    /\ todoNotesOut.filtered = <<<<"t", "o", "d", "o", ".", "m", "d">>>>

\* C3: a folder query (no leading '#', containing '/') selects exactly the
\* notes whose lower-cased path starts with the lower-cased query with a
\* '/' appended when it does not end in one; "Projects/" selects
\* Projects/Alpha/plan.md and never ProjectsOld/x.md.
C3_FolderQuerySelectsPrefix ==
    /\ (todoOut.rendered /\ KindByString(todoOut.sourcesQuery) = "folder")
          => /\ Range(todoOut.relevant) = PrefixSelection(todoOut.sourcesQuery)
             /\ <<"P", "r", "o", "j", "e", "c", "t", "s", "O", "l", "d", "/", "x", ".", "m", "d">> \notin Range(todoOut.relevant)
    /\ (todoNotesOut.rendered /\ KindByString(todoNotesOut.query) = "folder")
          => /\ Range(todoNotesOut.filtered) = PrefixSelection(todoNotesOut.query)
             /\ <<"P", "r", "o", "j", "e", "c", "t", "s", "O", "l", "d", "/", "x", ".", "m", "d">> \notin Range(todoNotesOut.filtered)
             /\ (todoNotesOut.query = <<"P", "r", "o", "j", "e", "c", "t", "s", "/">>
                    /\ <<"P", "r", "o", "j", "e", "c", "t", "s", "/", "A", "l", "p", "h", "a", "/", "p", "l", "a", "n", ".", "m", "d">> \in {f.path : f \in FileSet})
                   => <<"P", "r", "o", "j", "e", "c", "t", "s", "/", "A", "l", "p", "h", "a", "/", "p", "l", "a", "n", ".", "m", "d">> \in Range(todoNotesOut.filtered)

\* both filters rendered the query "Projects/" (the sidebar lower-cased) on a
\* vault that holds Projects/Alpha/plan.md and ProjectsOld/x.md
C3_Witness ==
    /\ todoOut.rendered /\ todoNotesOut.rendered
    /\ todoNotesOut.query = <<"P", "r", "o", "j", "e", "c", "t", "s", "/">>
    /\ todoOut.sourcesQuery = <<"p", "r", "o", "j", "e", "c", "t", "s", "/">>
    /\ <<"P", "r", "o", "j", "e", "c", "t", "s", "O", "l", "d", "/", "x", ".", "m", "d">> \in {f.path : f \in FileSet}
    /\ todoNotesOut.filtered = <<<<"P", "r", "o", "j", "e", "c", "t", "s", "/", "A", "l", "p", "h", "a", "/", "p", "l", "a", "n", ".", "m", "d">>>>
    /\ todoOut.relevant = <<<<"P", "r", "o", "j", "e", "c", "t", "s", "/", "A", "l", "p", "h", "a", "/", "p", "l", "a", "n", ".", "m", "d">>>>

\* whether a path is under an excluded top-level folder of the settings
UnderExcludedTopFolder(path) ==
    \E name \in Range(ParseList(settings.excludedTopFolders)) :
        StartsWith(ToLowerCase(path), name \o <<"/">>)

\* the open and in-progress tasks of the notes that are not under an
\* excluded top-level folder
TasksOfVault ==
    UNION {{[file |-> f.path, line |-> f.listItems[i].line,
             status |-> f.listItems[i].task, mtime |-> f.mtime] :
               i \in {k \in 1..Len(f.listItems) : f.listItems[k].task \in {" ", "/"}}} :
           f \in {g \in FileSet : ~UnderExcludedTopFolder(g.path)}}

\* C4: when the source query of the task extractor is empty or only white
\* space, no filtering applies: the open and in-progress tasks of every note
\* that is not under an excluded top-level folder are collected.
C4_EmptySourceCollectsAllTasks ==
    (todoOut.rendered /\ Trim(settings.todoSidebarSectionSources) = <<>>)
        => /\ Range(todoOut.relevant) = {f.path : f \in FileSet}
           /\ Range(todoOut.allTasks) = TasksOfVault
           /\ Len(todoOut.allTasks) = Cardinality(TasksOfVault)

\* a render with a source setting of two blanks and an excluded folder that
\* holds a note with an open task
C4_Witness ==
    /\ todoOut.rendered
    /\ settings.todoSidebarSectionSources = <<" ", " ">>
    /\ \E f \in FileSet : UnderExcludedTopFolder(f.path) /\ TasksOfFile(f) # <<>>
    /\ Len(todoOut.allTasks) >= 3

\* the open and in-progress items of the notes that passed the source
\* filter of the rendered section and are not under an excluded folder
TasksOfRelevantNotes ==
    UNION {{[file |-> f.path, line |-> f.listItems[i].line,
             status |-> f.listItems[i].task, mtime |-> f.mtime] :
               i \in {k \in 1..Len(f.listItems) : f.listItems[k].task \in {" ", "/"}}} :
           f \in {g \in FileSet : /\ g.path \in Range(todoOut.relevant)
                                  /\ ~UnderExcludedTopFolder(g.path)}}

\* a task is not after another one: newer note first, then the earlier line
NotAfter(a, b) == a.mtime > b.mtime \/ (a.mtime = b.mtime /\ a.line <= b.line)

\* C16: the collected tasks hold no item with a marker other than ' ' and
\* '/', hold every open or in-progress item of every note that passes the
\* filter and is not under an excluded folder, each once, and are ordered by
\* the note's modification time descending, then by line number ascending
C16_OpenTasksCollectedAndOrdered ==
    todoOut.rendered =>
        /\ \A i \in 1..Len(todoOut.allTasks) : todoOut.allTasks[i].status \in {" ", "/"}
        /\ Range(todoOut.allTasks) = TasksOfRelevantNotes
        /\ Len(todoOut.allTasks) = Cardinality(TasksOfRelevantNotes)
        /\ \A i, j \in 1..Len(todoOut.allTasks) :
              i < j => NotAfter(todoOut.allTasks[i], todoOut.allTasks[j])

\* a list collected from a note that also holds a done item, with a note
\* under an excluded folder that passed the filter and holds an open task,
\* with two notes of the same modification time, and with a note whose
\* second task comes before the task of an older note listed before it
C16_Witness ==
    /\ todoOut.rendered
    /\ \E f \in FileSet :
          /\ f.path \in Range(todoOut.relevant)
          /\ ~UnderExcludedTopFolder(f.path)
          /\ \E i, j \in 1..Len(f.listItems) :
                f.listItems[i].task = "x" /\ f.listItems[j].task = "/"
    /\ \E f \in FileSet :
          /\ f.path \in Range(todoOut.relevant)
          /\ UnderExcludedTopFolder(f.path)
          /\ \E i \in 1..Len(f.listItems) : f.listItems[i].task = " "
    /\ \E i, j \in 1..Len(todoOut.allTasks) :
          /\ i < j
          /\ todoOut.allTasks[i].mtime = todoOut.allTasks[j].mtime
          /\ todoOut.allTasks[i].file # todoOut.allTasks[j].file
    /\ \E i, j \in 1..Len(todoOut.allTasks) :
          /\ i < j
          /\ todoOut.allTasks[i].mtime > todoOut.allTasks[j].mtime
          /\ todoOut.allTasks[i].line > todoOut.allTasks[j].line

\* C17: the task list shown is the first min(limit, number of collected
\* tasks) tasks of the sorted sequence of all collected tasks: no task left
\* out comes before a task shown
C17_ShownTasksArePrefixOfSorted ==
    todoOut.rendered =>
        LET shown == todoOut.tasksToShow
            n == Min(settings.todoSidebarSectionLimit, Cardinality(TasksOfRelevantNotes))
        IN  /\ Len(shown) = n
            /\ shown = SubSeq(todoOut.allTasks, 1, n)
            /\ Range(shown) \subseteq TasksOfRelevantNotes
            /\ Cardinality(Range(shown)) = n
            /\ \A i, j \in 1..n : i < j => NotAfter(shown[i], shown[j])
            /\ \A a \in Range(shown) : \A b \in TasksOfRelevantNotes \ Range(shown) :
                  NotAfter(a, b)

\* a list cut by the limit, where a task left out belongs to a note scanned
\* before the note of a task shown, and a task shown to a note scanned after
\* the note of a task left out
C17_Witness ==
    /\ todoOut.rendered
    /\ Len(todoOut.tasksToShow) = settings.todoSidebarSectionLimit
    /\ Len(todoOut.allTasks) > Len(todoOut.tasksToShow)
    /\ \E a \in Range(todoOut.tasksToShow) :
       \E b \in Range(todoOut.allTasks) \ Range(todoOut.tasksToShow) :
       \E i, j \in 1..Len(files) :
          i < j /\ files[i].path = b.file /\ files[j].path = a.file

(***************************************************************************)
(* The daily specification: the daily display over the days of a run       *)
(***************************************************************************)

\* the notes of the vaults of the daily specification, by their 'form' field
DailyCatalog ==
    <<TFile(<<"p", "o", "e", "m", "s", "/", "a", ".", "m", "d">>, 1, <<>>, FormKey :> Str(<<"P", "o", "e", "m">>), <<>>),
      TFile(<<"p", "o", "e", "m", "s", "/", "b", ".", "m", "d">>, 2, <<>>, FormKey :> Arr(<<Str(<<"d", "r", "a", "f", "t">>), Str(<<"P", "O", "E", "M">>)>>), <<>>),
      TFile(<<"z", "e", "r", "o", ".", "m", "d">>, 3, <<>>, FormKey :> Num(0), <<>>),
      TFile(<<"n", "o", ".", "m", "d">>, 4, <<>>, FormKey :> Bool(FALSE), <<>>),
      TFile(<<"b", "l", "a", "n", "k", ".", "m", "d">>, 5, <<>>, FormKey :> Str(<<>>), <<>>),
      TFile(<<"e", "s", "s", "a", "y", ".", "m", "d">>, 6, <<>>, FormKey :> Str(<<"e", "s", "s", "a", "y">>), <<>>),
      TFile(<<"p", "l", "a", "i", "n", ".", "m", "d">>, 7, <<>>, NoFrontmatter, <<>>),
      TFile(<<"l", "i", "s", "t", ".", "m", "d">>, 8, <<>>, FormKey :> Arr(<<Num(0), Str(<<"e", "s", "s", "a", "y">>)>>), <<>>)>>

DailyFolderCatalog == <<<<"p", "o", "e", "m", "s">>>>

\* the texts typed into "Metadata field"
FieldInputs ==
    {<<"f", "o", "r", "m">>, <<" ", "f", "o", "r", "m", " ">>, <<>>, <<"k", "i", "n", "d">>}

\* the texts typed into "Applicable forms"
FormsInputs ==
    {<<"P", "o", "e", "m", ",", " ", "0", ",", "f", "a", "l", "s", "e">>,
     <<" ", "p", "o", "e", "m", " ", ",", ",", " ">>,
     <<"e", "s", "s", "a", "y">>, <<",">>, <<>>}

\* the locales of the host: two with ASCII digits, one with its own numerals
Locales == {"en", "zh-cn", "ar"}

\* onChange of the daily display "Metadata field"
SetDailyDisplayMetadataField ==
    \E value \in FieldInputs :
        SaveSettings([settings EXCEPT !.dailyDisplayMetadataField =
                         OrDefault(Trim(value), DefaultDailyDisplayMetadataField)])

\* onChange of the daily display "Applicable forms"
SetDailyDisplayForms ==
    \E value \in FormsInputs :
        SaveSettings([settings EXCEPT !.dailyDisplayForms = value])

InitDaily ==
    /\ \E k \in 0..Len(DailyCatalog) : files = Without(DailyCatalog, k)
    /\ folders = FoldersOf(files, DailyFolderCatalog, {})
    /\ \E field \in {DefaultDailyDisplayMetadataField, <<>>} :
          settings = [DefaultSettings EXCEPT
                         !.dailyDisplayMetadataField = field,
                         !.showFolderGrid = FALSE,
                         !.showVaultStats = FALSE,
                         !.showQuickAccess = FALSE,
                         !.showTodoSidebarSection = FALSE,
                         !.showTodoNotes = FALSE]
    /\ locale \in Locales
    /\ clock = 0
    /\ dailyOut = Unrendered
    /\ dailyPrev = Unrendered
    /\ gridOut = Unrendered
    /\ todoOut = Unrendered
    /\ todoNotesOut = Unrendered
    /\ statsOut = Unrendered
    /\ tagsOut = Unrendered
    /\ unreadable = {}
    /\ renders = <<>>
    /\ attached = 0
    /\ InitPage
    /\ InitOnHomepage

NextDaily ==
    \/ RenderHomepageContent
    \/ SetDailyDisplayMetadataField
    \/ SetDailyDisplayForms
    \/ Tick

SpecDaily == InitDaily /\ [][NextDaily]_vars

(***************************************************************************)
(* Properties of the daily display                                         *)
(***************************************************************************)

\* C5: daily selection is deterministic: two renders with the same ordered
\* candidate list on the same calendar date select the same note; a
\* selected note is a member of the candidate list; with no candidates no
\* note is selected.
C5_DailySelectionDeterministic ==
    /\ dailyOut.rendered =>
          /\ dailyOut.selected # <<>> => SeqIncludes(dailyOut.candidates, dailyOut.selected)
          /\ dailyOut.candidates = <<>> => dailyOut.selected = <<>>
    /\ (/\ dailyOut.rendered /\ dailyPrev.rendered
        /\ dailyOut.candidates = dailyPrev.candidates
        /\ dailyOut.day = dailyPrev.day)
          => dailyOut.selected = dailyPrev.selected

\* two renders at different times of one day, with the same two or more
\* candidates, that both selected a note
C5_Witness ==
    /\ dailyOut.rendered /\ dailyPrev.rendered
    /\ dailyOut.day = dailyPrev.day
    /\ dailyOut.id # dailyPrev.id
    /\ Len(dailyOut.candidates) >= 2
    /\ dailyOut.candidates = dailyPrev.candidates
    /\ dailyOut.selected # <<>>
    /\ dailyPrev.selected # <<>>

\* C6: for every non-empty candidate list of length n and every date seed
\* the index used to pick the daily note lies in [0, n-1], so the lookup
\* never yields an undefined candidate.
C6_IndexWithinCandidates ==
    (dailyOut.rendered /\ dailyOut.candidates # <<>>)
        => /\ ~dailyOut.index.nan
           /\ dailyOut.index.n >= 0
           /\ dailyOut.index.n < Len(dailyOut.candidates)
           /\ dailyOut.selected # <<>>

\* whether some value of the note's field, compared case-insensitively,
\* equals one of the configured allowed values
FieldMatchesAllowed(file, key) ==
    /\ key \in DOMAIN file.fm
    /\ LET v == file.fm[key]
           values == IF v.t = "array"
                     THEN {ToLowerCase(JSString(v.a[i])) : i \in 1..Len(v.a)}
                     ELSE {ToLowerCase(JSString(v))}
       IN  values \cap Range(ParseList(settings.dailyDisplayForms)) # {}

\* C7: a note is a daily-selection candidate if and only if its frontmatter
\* has the configured field and the field's value, compared
\* case-insensitively, equals one of the allowed values; for an array any
\* one element suffices; this holds for every scalar value, including 0,
\* false and the empty string.
C7_CandidatesAreTheMatchingNotes ==
    (dailyOut.rendered /\ dailyOut.state # "notConfigured")
        => Range(dailyOut.candidates) =
              {f.path : f \in {g \in FileSet :
                  FieldMatchesAllowed(g, Trim(settings.dailyDisplayMetadataField))}}

(***************************************************************************)
(* The folder specification: the folder grid over vaults of folders        *)
(***************************************************************************)

\* the notes of the vaults of the folder specification
GridCatalog ==
    <<TFile(<<"P", "o", "e", "m", "s", "/", "L", "i", " ", "B", "a", "i", "/", "a", ".", "m", "d">>, 1, <<>>, NoFrontmatter, <<>>),
      TFile(<<"P", "o", "e", "m", "s", "/", "b", ".", "m", "d">>, 2, <<>>, NoFrontmatter, <<>>),
      TFile(<<"P", "o", "e", "m", "s", "/", "p", "o", "e", "m", "s", ".", "m", "d">>, 3, <<>>, NoFrontmatter, <<>>),
      TFile(<<"P", "o", "e", "m", "s", "/", "L", "i", " ", "B", "a", "i", "/", "d", "e", "e", "p", "/", "c", ".", "m", "d">>, 4, <<>>, NoFrontmatter, <<>>),
      TFile(<<"1", "i", "n", "/", "x", ".", "m", "d">>, 5, <<>>, NoFrontmatter, <<>>),
      TFile(<<"a", "p", "p", "l", "e", "/", "z", ".", "m", "d">>, 6, <<>>, NoFrontmatter, <<>>),
      TFile(<<"B", "a", "n", "a", "n", "a", "/", "w", ".", "m", "d">>, 7, <<>>, NoFrontmatter, <<>>),
      TFile(<<"T", "e", "m", "p", "l", "a", "t", "e", "s", "/", "t", ".", "m", "d">>, 8, <<>>, NoFrontmatter, <<>>),
      TFile(<<"_", "x", "/", "n", ".", "m", "d">>, 9, <<>>, NoFrontmatter, <<>>),
      TFile(<<"r", "o", "o", "t", ".", "m", "d">>, 9, <<>>, NoFrontmatter, <<>>),
      TFile(<<"P", "o", "e", "m", "s", "/", "L", "i", " ", "B", "a", "i", "/", "b", "2", ".", "m", "d">>, 10, <<>>, NoFrontmatter, <<>>),
      TFile(<<"A", "b", "o", "u", "t", ".", "m", "d">>, 11, <<>>, NoFrontmatter, <<>>)>>

\* the folders of those vaults, in the order root.children lists them
GridFolderCatalog ==
    <<<<"a", "p", "p", "l", "e">>, <<"P", "o", "e", "m", "s">>, <<"P", "o", "e", "m", "s", "/", "L", "i", " ", "B", "a", "i">>, <<"P", "o", "e", "m", "s", "/", "L", "i", " ", "B", "a", "i", "/", "d", "e", "e", "p">>, <<"P", "o", "e", "m", "s", "/", "L", "i">>,
      <<"_", "x">>, <<"B", "a", "n", "a", "n", "a">>, <<"T", "e", "m", "p", "l", "a", "t", "e", "s">>, <<"1", "i", "n">>, <<"E", "m", "p", "t", "y">>>>

\* the folders that exist without holding a note
EmptyFolders == {<<"E", "m", "p", "t", "y">>, <<"P", "o", "e", "m", "s", "/", "L", "i">>}

\* the vaults of the folder specification: the catalogue without up to
\* MaxMissing notes, and the vaults of at most one note
GridVaults ==
    {Second(pairs) : pairs \in {q \in SubSeqs(GridCatalog) :
        Len(q) >= Len(GridCatalog) - MaxMissing \/ Len(q) <= 1}}

\* onChange of the "Recent notes per category" slider
SetRecentNotesInCategoryLimit ==
    \E value \in 0..MaxLimit :
        SaveSettings([settings EXCEPT !.recentNotesInCategoryLimit = value])

\* onChange of the "Initial Notes Display Count" slider
SetInitialNotesInSubfolderDisplay ==
    \E value \in 1..MaxLimit :
        SaveSettings([settings EXCEPT !.initialNotesInSubfolderDisplay = value])

InitFolders ==
    /\ files \in GridVaults
    /\ folders = FoldersOf(files, GridFolderCatalog, EmptyFolders)
    /\ settings = [DefaultSettings EXCEPT
                      !.showDailyDisplay = FALSE,
                      !.showVaultStats = FALSE,
                      !.showQuickAccess = FALSE,
                      !.showTodoSidebarSection = FALSE,
                      !.showTodoNotes = FALSE]
    /\ locale = "en"
    /\ clock = 0
    /\ dailyOut = Unrendered
    /\ dailyPrev = Unrendered
    /\ gridOut = Unrendered
    /\ todoOut = Unrendered
    /\ todoNotesOut = Unrendered
    /\ statsOut = Unrendered
    /\ tagsOut = Unrendered
    /\ unreadable = {}
    /\ renders = <<>>
    /\ attached = 0
    /\ InitPage
    /\ InitOnHomepage

NextFolders ==
    \/ RenderHomepageContent
    \/ SetExcludedTopFolders
    \/ SetRecentNotesInCategoryLimit
    \/ SetInitialNotesInSubfolderDisplay

SpecFolders == InitFolders /\ [][NextFolders]_vars

(***************************************************************************)
(* Properties of the folder grid                                           *)
(***************************************************************************)

\* how often x occurs in a sequence
CountIn(seq, x) == Cardinality({i \in 1..Len(seq) : seq[i] = x})

\* how often a note is listed in the lists of a folder card: the notes of
\* its subfolders and its direct notes
Listings(card, path) ==
    CountIn(card.directNotes, path)
    + Cardinality({ki \in UNION {{<<k, i>> : i \in 1..Len(card.subfolders[k].notes)} :
                                    k \in 1..Len(card.subfolders)} :
                      card.subfolders[ki[1]].notes[ki[2]] = path})

\* the paths of the notes under a folder
NotesUnder(folderPath) ==
    {f.path : f \in {g \in FileSet : StartsWith(g.path, folderPath \o <<"/">>)}}

\* a note directly in a folder whose basename is, case-insensitively, the
\* name of the folder
IsIndexNote(folderPath, path) ==
    /\ StartsWith(path, folderPath \o <<"/">>)
    /\ ~Includes(SubSeq(path, Len(folderPath) + 2, Len(path)), <<"/">>)
    /\ ToLowerCase(BasenameOf(path)) = ToLowerCase(NameOf(folderPath))

\* C8 as stated: every note under a folder that has a card is listed exactly
\* once in the lists of the card, the notes of some subfolder or the direct
\* notes
C8_EveryNoteListedOnce ==
    gridOut.rendered =>
        \A k \in 1..Len(gridOut.cards) :
            \A path \in NotesUnder(gridOut.cards[k].folder) :
                Listings(gridOut.cards[k], path) = 1

\* C8 amended: every note under a folder that has a card is listed exactly
\* once in the lists of the card, except the notes directly in the folder
\* whose basename is, case-insensitively, the name of the folder: these are
\* listed in none of the lists
C8_EveryNoteButIndexListedOnce ==
    gridOut.rendered =>
        \A k \in 1..Len(gridOut.cards) :
            \A path \in NotesUnder(gridOut.cards[k].folder) :
                Listings(gridOut.cards[k], path) =
                    IF IsIndexNote(gridOut.cards[k].folder, path) THEN 0 ELSE 1

\* a card of a folder that holds a note named like the folder, a direct note
\* and a subfolder with a note below one of its own subfolders
C8_Witness ==
    /\ gridOut.rendered
    /\ \E k \in 1..Len(gridOut.cards) :
        LET card == gridOut.cards[k]
        IN  /\ \E path \in NotesUnder(card.folder) : IsIndexNote(card.folder, path)
            /\ Len(card.directNotes) > 0
            /\ \E i \in 1..Len(card.subfolders) :
                 \E j \in 1..Len(card.subfolders[i].notes) :
                    Includes(SubSeq(card.subfolders[i].notes[j],
                                    Len(card.subfolders[i].path) + 2,
                                    Len(card.subfolders[i].notes[j])), <<"/">>)

\* the folders that are children of the vault root
TopLevelFolderSet == {p \in Range(folders) : ~Includes(p, <<"/">>)}

\* the folders that have a card
CardFolders == {gridOut.cards[k].folder : k \in 1..Len(gridOut.cards)}

\* the name of a folder is, case-insensitively, an entry of the excluded list
NameExcluded(p) ==
    \E i \in 1..Len(SplitComma(settings.excludedTopFolders)) :
        LET entry == ToLowerCase(Trim(SplitComma(settings.excludedTopFolders)[i]))
        IN  entry # <<>> /\ entry = ToLowerCase(NameOf(p))

C10_DigitFoldersFirstThenLocaleOrder ==
    gridOut.rendered =>
        \A i, j \in 1..Len(gridOut.cards) :
            i < j =>
                LET a == NameOf(gridOut.cards[i].folder)
                    b == NameOf(gridOut.cards[j].folder)
                IN  /\ ~(~StartsWithDigit(a) /\ StartsWithDigit(b))
                    /\ (StartsWithDigit(a) <=> StartsWithDigit(b))
                          => LocaleCompare(a, b) <= 0

\* cards of a folder starting with a digit, of a folder starting with
\* punctuation that collates before the digits, and of folders that differ
\* in the case of their first letter
C10_Witness ==
    /\ gridOut.rendered
    /\ \E i, j, k, l \in 1..Len(gridOut.cards) :
          /\ StartsWithDigit(NameOf(gridOut.cards[i].folder))
          /\ LocaleCompare(NameOf(gridOut.cards[j].folder),
                           NameOf(gridOut.cards[i].folder)) < 0
          /\ Head(NameOf(gridOut.cards[k].folder)) \in Range(UpperLetters)
          /\ Head(NameOf(gridOut.cards[l].folder)) \in Range(LowerLetters)
          /\ LocaleCompare(NameOf(gridOut.cards[l].folder),
                           NameOf(gridOut.cards[k].folder)) < 0
          /\ l < k

\* the paginated lists of the rendered folder grid, each with the notes it
\* was made from
PaginatedLists ==
    UNION {{[notes |-> gridOut.cards[c].subfolders[i].notes,
             list |-> gridOut.cards[c].subLists[i]] :
                i \in 1..Len(gridOut.cards[c].subfolders)}
           \cup {[notes |-> gridOut.cards[c].directNotes,
                  list |-> gridOut.cards[c].directList]} :
           c \in 1..Len(gridOut.cards)}
    \cup {[notes |-> gridOut.rootNotes, list |-> gridOut.rootList]}

\* C11: in every paginated list (subfolder lists, direct-note lists, the
\* root-note list) with n notes and initial count k >= 1, all n notes are in
\* the list, exactly the first min(k, n) of them are in the visible prefix,
\* the others are marked overflow, and the 'show more' toggle exists if and
\* only if n > k
C11_PaginationPrefixAndToggle ==
    (gridOut.rendered /\ settings.initialNotesInSubfolderDisplay >= 1) =>
        \A l \in PaginatedLists :
            LET n == Len(l.notes)
                k == settings.initialNotesInSubfolderDisplay
            IN  /\ Len(l.list.items) = n
                /\ \A i \in 1..n : l.list.items[i].path = l.notes[i]
                /\ {i \in 1..n : ~l.list.items[i].overflow} = 1..Min(k, n)
                /\ l.list.toggle <=> n > k

\* a render with a list longer than the initial count (with more than one
\* visible note and an overflow note), a list as long as it and a shorter one
C11_Witness ==
    /\ gridOut.rendered
    /\ settings.initialNotesInSubfolderDisplay = 2
    /\ \E l \in PaginatedLists : Len(l.notes) = 3 /\ l.list.toggle /\ l.list.items[3].overflow
    /\ \E l \in PaginatedLists : Len(l.notes) = 2 /\ ~l.list.toggle
    /\ \E l \in PaginatedLists : Len(l.notes) = 1

(***************************************************************************)
(* The stats specification: the vault stats and the top tags               *)
(***************************************************************************)

\* the notes of the vaults of the stats specification
StatsCatalog ==
    <<TFile(<<"N", "o", "t", "e", "s", "/", "y", ".", "m", "d">>, 1, << <<"#", "t", "o", "d", "o">>, <<"#", "T", "o", "d", "o">> >>,
            TagsKey :> Arr(<<Str(<<"#", "T", "o", "D", "o">>), Str(<<" ", "x", " ">>)>>), <<>>),
      TFile(<<"N", "o", "t", "e", "s", "/", "z", ".", "m", "d">>, 2, << <<"#", "x">> >>, TagsKey :> Str(<<"X">>), <<>>),
      TFile(<<"J", "o", "u", "r", "n", "a", "l", "/", "j", ".", "m", "d">>, 3, << <<"#", "z", "e", "t", "a">>, <<"#", "a", "l", "p", "h", "a">> >>, NoFrontmatter, <<>>),
      TFile(<<"J", "o", "u", "r", "n", "a", "l", "O", "l", "d", "/", "k", ".", "m", "d">>, 4, <<>>,
            TagsKey :> Arr(<<Str(<<>>), Str(<<"#">>)>>), <<>>),
      TFile(<<"T", "e", "m", "p", "l", "a", "t", "e", "s", "/", "x", ".", "m", "d">>, 5, << <<"#", "t", "o", "d", "o">>, <<"#", "t", "p", "l">> >>, NoFrontmatter, <<>>),
      TFile(<<"r", ".", "m", "d">>, 6, << <<"#", "a", "l", "p", "h", "a">>, <<"#", "z", "e", "t", "a">> >>, NoFrontmatter, <<>>)>>

StatsFolderCatalog ==
    << <<"N", "o", "t", "e", "s">>, <<"J", "o", "u", "r", "n", "a", "l">>, <<"J", "o", "u", "r", "n", "a", "l", "O", "l", "d">>, <<"T", "e", "m", "p", "l", "a", "t", "e", "s">> >>

\* the vault of the scenario: Templates/x.md and Notes/y.md
ScenarioVault == <<StatsCatalog[5], StatsCatalog[1]>>

\* the texts typed into "Excluded from Word Count"
WordcountInputs == {<<>>, <<"J", "o", "u", "r", "n", "a", "l", "/">>, <<" ", "j", "o", "u", "r", "n", "a", "l", ",", "x", " ">>}

\* onChange of "Excluded from Word Count"
SetExcludedFromWordcount ==
    \E value \in WordcountInputs :
        SaveSettings([settings EXCEPT !.excludedFromWordcount = value])

\* onChange of the "Top Tags Limit" slider
SetTopTagsLimit ==
    \E val \in 1..MaxLimit :
        SaveSettings([settings EXCEPT !.topTagsLimit = val])

InitStats ==
    /\ \/ \E k \in 0..Len(StatsCatalog) : files = Without(StatsCatalog, k)
       \/ files = ScenarioVault
    /\ folders = FoldersOf(files, StatsFolderCatalog, {})
    /\ \E excluded \in {DefaultSettings.excludedTopFolders, <<"T", "e", "m", "p", "l", "a", "t", "e", "s">>} :
          settings = [DefaultSettings EXCEPT
                         !.excludedTopFolders = excluded,
                         !.showDailyDisplay = FALSE,
                         !.showFolderGrid = FALSE,
                         !.showTodoSidebarSection = FALSE,
                         !.showTodoNotes = FALSE]
    /\ locale = "en"
    /\ clock = 0
    /\ dailyOut = Unrendered
    /\ dailyPrev = Unrendered
    /\ gridOut = Unrendered
    /\ todoOut = Unrendered
    /\ todoNotesOut = Unrendered
    /\ statsOut = Unrendered
    /\ tagsOut = Unrendered
    /\ unreadable \in {{}, { <<"N", "o", "t", "e", "s", "/", "z", ".", "m", "d">> }}
    /\ renders = <<>>
    /\ attached = 0
    /\ InitPage
    /\ InitOnHomepage

NextStats ==
    \/ RenderHomepageContent
    \/ SetExcludedTopFolders
    \/ SetExcludedFromWordcount
    \/ SetTopTagsLimit

SpecStats == InitStats /\ [][NextStats]_vars

(***************************************************************************)
(* Properties of the top tags and of the vault stats                       *)
(***************************************************************************)

\* the tags a note contains: its body tags and the entries of its
\* frontmatter tags, trimmed, without a leading '#', lower-cased
TagsOfNote(file) ==
    {ToLowerCase(StripHash(Trim(t))) :
        t \in Range(file.tags) \cup FrontmatterTagEntries(file)} \ {<<>>}

\* the notes counted for a tag: those that contain it and are not under an
\* excluded top-level folder
NotesWithTag(tag) ==
    {f \in FileSet : ~UnderExcludedTopFolder(f.path) /\ tag \in TagsOfNote(f)}

\* C12: the count of a tag is the number of notes that contain it, however
\* often and wherever (body, frontmatter, with or without '#', in any letter
\* case) it occurs in a note; notes under an excluded top-level folder
\* contribute nothing; every tag of the result has a count of at least 1
C12_TagCountedOncePerNote ==
    tagsOut.rendered =>
        /\ \A i \in 1..Len(tagsOut.tagCounts) :
              /\ tagsOut.tagCounts[i].count =
                    Cardinality(NotesWithTag(tagsOut.tagCounts[i].tag))
              /\ tagsOut.tagCounts[i].count >= 1
              /\ \A j \in 1..Len(tagsOut.tagCounts) :
                    tagsOut.tagCounts[j].tag = tagsOut.tagCounts[i].tag => j = i
        /\ \A f \in FileSet : \A tag \in TagsOfNote(f) :
              NotesWithTag(tag) # {} =>
                  \E i \in 1..Len(tagsOut.tagCounts) : tagsOut.tagCounts[i].tag = tag

\* a count over a note that holds the tag twice in its body, in different
\* case, and once more in its frontmatter with a '#', and over a note under
\* an excluded folder that holds the tag too
C12_Witness ==
    /\ tagsOut.rendered
    /\ \E f \in FileSet :
          /\ \E i, j \in 1..Len(f.tags) :
                i # j /\ ToLowerCase(f.tags[i]) = ToLowerCase(f.tags[j])
                      /\ f.tags[i] # f.tags[j]
                      /\ \E e \in FrontmatterTagEntries(f) :
                            ToLowerCase(e) = ToLowerCase(f.tags[i])
          /\ \E g \in FileSet :
                /\ UnderExcludedTopFolder(g.path)
                /\ TagsOfNote(f) \cap TagsOfNote(g) # {}
          /\ ~UnderExcludedTopFolder(f.path)
    /\ \E i \in 1..Len(tagsOut.tagCounts) : tagsOut.tagCounts[i].count >= 2

\* the tags counted of each note, in the order of the scan: none for a note
\* under an excluded top-level folder
CountedTagsOfNotes ==
    [i \in 1..Len(files) |->
        IF UnderExcludedTopFolder(files[i].path) THEN {} ELSE TagsOfNote(files[i])]

\* the place of a tag in the order of first sight: the first note, in the
\* order of the scan, that is counted for it
FirstNoteWith(tag, tagsOfNotes) ==
    CHOOSE i \in 1..Len(files) :
        /\ tag \in tagsOfNotes[i]
        /\ \A j \in 1..(i - 1) : tag \notin tagsOfNotes[j]

\* the place of a tag among the entries of the count
PlaceOf(tag) == CHOOSE i \in 1..Len(tagsOut.tagCounts) : tagsOut.tagCounts[i].tag = tag

\* the entry at place i of the count comes before the entry at place j: a
\* greater count, or the same count and seen first
RanksBefore(i, j) ==
    \/ tagsOut.tagCounts[i].count > tagsOut.tagCounts[j].count
    \/ /\ tagsOut.tagCounts[i].count = tagsOut.tagCounts[j].count
       /\ i < j

\* C13: the tags are ordered by count descending, tags of equal count in
\* the order in which they were first seen while scanning the notes, and the
\* list shown is the first topTagsLimit entries of that order
C13_TagsByCountThenFirstSeen ==
    tagsOut.rendered =>
        LET shown == tagsOut.sortedTags
            n == Len(tagsOut.tagCounts)
            tagsOfNotes == CountedTagsOfNotes
            firstNote == [i \in 1..n |->
                             FirstNoteWith(tagsOut.tagCounts[i].tag, tagsOfNotes)]
        IN  /\ Len(shown) = Min(settings.topTagsLimit, n)
            /\ Range(shown) \subseteq Range(tagsOut.tagCounts)
            /\ LET place == [k \in 1..Len(shown) |-> PlaceOf(shown[k].tag)]
                   placed == {place[k] : k \in 1..Len(shown)}
               IN  /\ \A k, l \in 1..Len(shown) :
                         k < l => RanksBefore(place[k], place[l])
                   /\ \A i \in placed : \A j \in (1..n) \ placed : RanksBefore(i, j)
            /\ \A i, j \in 1..n : firstNote[i] < firstNote[j] => i < j

\* a list cut by the limit whose two entries have the same count, with the
\* entry seen later first in the alphabet, and a further tag of that count
C13_Witness ==
    /\ tagsOut.rendered
    /\ Len(tagsOut.sortedTags) = 2
    /\ Len(tagsOut.tagCounts) > 2
    /\ tagsOut.sortedTags[1].count = tagsOut.sortedTags[2].count
    /\ \E i \in 1..Len(tagsOut.tagCounts) :
          /\ tagsOut.tagCounts[i] \notin Range(tagsOut.sortedTags)
          /\ tagsOut.tagCounts[i].count = tagsOut.sortedTags[1].count
          /\ LocaleCompare(tagsOut.tagCounts[i].tag, tagsOut.sortedTags[2].tag) < 0

\* the entries of the "Excluded from Word Count" setting
WordcountEntries == Range(ParseList(settings.excludedFromWordcount))

\* the notes counted: those not under an excluded top-level folder
CountedNotes == {f.path : f \in {g \in FileSet : ~UnderExcludedTopFolder(g.path)}}

\* a path lies under an excluded word-count path taken as a folder
UnderWordcountFolder(path) ==
    \E e \in WordcountEntries :
        StartsWith(ToLowerCase(path), IF EndsWith(e, <<"/">>) THEN e ELSE e \o <<"/">>)

\* the lower-cased path starts with an excluded word-count entry
HasWordcountPrefix(path) ==
    \E e \in WordcountEntries : StartsWith(ToLowerCase(path), e)

\* the scenario: excluded top folder Templates, notes Templates/x.md and
\* Notes/y.md
IsScenario ==
    /\ settings.excludedTopFolders = <<"T", "e", "m", "p", "l", "a", "t", "e", "s">>
    /\ {f.path : f \in FileSet} = { <<"T", "e", "m", "p", "l", "a", "t", "e", "s", "/", "x", ".", "m", "d">>, <<"N", "o", "t", "e", "s", "/", "y", ".", "m", "d">> }

\* C14: the note count is the number of notes not under an
\* excluded top-level folder (1 in the scenario), and the notes of the word
\* count are the counted notes that are not under an excluded word-count
\* path
C14_WordCountNotesNotUnderExcludedPath ==
    statsOut.rendered =>
        /\ statsOut.noteCount = Cardinality(CountedNotes)
        /\ IsScenario => statsOut.noteCount = 1
        /\ Range(statsOut.wordFiles) = {q \in CountedNotes : ~UnderWordcountFolder(q)}

\* what the code computes instead: the notes of the word count are the
\* counted notes whose lower-cased path does not start with an entry of the
\* excluded word-count list (trimmed, lower-cased, nothing appended), so
\* the entry "journal" also leaves out JournalOld/k.md
C14_WordCountNotesWithoutExcludedPrefix ==
    statsOut.rendered =>
        /\ statsOut.noteCount = Cardinality(CountedNotes)
        /\ IsScenario => statsOut.noteCount = 1
        /\ Range(statsOut.wordFiles) = {q \in CountedNotes : ~HasWordcountPrefix(q)}
        /\ Len(statsOut.wordFiles) = Cardinality(Range(statsOut.wordFiles))

\* a render with a note under an excluded top-level folder and a note left
\* out of the word count by an entry that is a prefix of its path but not a
\* folder above it
C14_Witness ==
    /\ statsOut.rendered
    /\ statsOut.noteCount < Len(files)
    /\ \E f \in FileSet :
          /\ f.path \in CountedNotes
          /\ HasWordcountPrefix(f.path)
          /\ ~UnderWordcountFolder(f.path)
          /\ f.path \notin Range(statsOut.wordFiles)
    /\ Len(statsOut.wordFiles) > 0

(***************************************************************************)
(* Renders in flight: the reads of a render settle after it has returned   *)
(***************************************************************************)

\* a render may not start when MaxRenders renders have started
MaxRenders == 2

\* content.split('\n')
RECURSIVE SplitLines(_)
SplitLines(content) ==
    LET breaks == {i \in 1..Len(content) : content[i] = "\n"}
    IN  IF breaks = {} THEN <<content>>
        ELSE LET first == CHOOSE i \in breaks : \A j \in breaks : i <= j
             IN  <<SubSeq(content, 1, first - 1)>>
                 \o SplitLines(SubSeq(content, first + 1, Len(content)))

\* the characters of the class [ \w\/xX-] of the task prefix pattern
MarkerChars ==
    {" ", "/", "-", "_", "0", "1", "2", "3", "4", "5", "6", "7", "8", "9"}
    \cup Range(LowerLetters) \cup Range(UpperLetters)

\* the first place at or after from that holds no white space
SkipSpaces(line, from) ==
    LET rest == {i \in from..Len(line) : ~IsSpace(line[i])}
    IN  IF rest = {} THEN Len(line) + 1
        ELSE CHOOSE i \in rest : \A j \in rest : i <= j

\* line.replace(/^[\s\t]*[-*+]\s*(\[[ \w\/xX-]\]\s*)?/, '')
StripTaskPrefix(line) ==
    LET bullet == SkipSpaces(line, 1)
    IN  IF bullet <= Len(line) /\ line[bullet] \in {"-", "*", "+"}
        THEN LET box == SkipSpaces(line, bullet + 1)
                 after == IF /\ box + 2 <= Len(line)
                             /\ line[box] = "["
                             /\ line[box + 1] \in MarkerChars
                             /\ line[box + 2] = "]"
                          THEN SkipSpaces(line, box + 3)
                          ELSE box
             IN  SubSeq(line, after, Len(line))
        ELSE line

\* the texts getOriginalTaskText returns: the text of the line, or one of
\* its two placeholders with the value it inserts
TaskText(text) == [kind |-> "text", s |-> text, n |-> 0]
LineOutOfRange(n) == [kind |-> "lineOutOfRange", s |-> <<>>, n |-> n]
ReadError(basename) == [kind |-> "readError", s |-> basename, n |-> 0]

\* getOriginalTaskText without its try and catch: a rejected read throws
GetOriginalTaskTextUncaught(path, lineNumber) ==
    IF path \in unreadable
    THEN [threw |-> TRUE, text |-> ReadError(BasenameOf(path))]
    ELSE LET lines == SplitLines(ContentOf(path))
         IN  [threw |-> FALSE,
              text |-> IF lineNumber >= 0 /\ lineNumber < Len(lines)
                       THEN TaskText(Trim(StripTaskPrefix(lines[lineNumber + 1])))
                       ELSE LineOutOfRange(lineNumber + 1)]

\* getOriginalTaskText: what the awaited call gives once the read has
\* settled, and whether it threw
GetOriginalTaskText(path, lineNumber) ==
    IF path \in unreadable
    THEN [threw |-> FALSE, text |-> ReadError(BasenameOf(path))]
    ELSE LET lines == SplitLines(ContentOf(path))
         IN  [threw |-> FALSE,
              text |-> IF lineNumber >= 0 /\ lineNumber < Len(lines)
                       THEN TaskText(Trim(StripTaskPrefix(lines[lineNumber + 1])))
                       ELSE LineOutOfRange(lineNumber + 1)]

\* what the callbacks of the daily read put into dailyNoteContentEl
DailyContent(path) ==
    IF path \in unreadable
    THEN [state |-> "failed", text |-> <<>>]
    ELSE [state |-> "content", text |-> Trim(StripFrontmatter(ContentOf(path)))]

\* an element of the tree of a render: what it shows and the render whose
\* code wrote it
Written(id, out) == [by |-> id, out |-> out]

\* the text of totalWordsValueEl after the callbacks of one read have run,
\* for a total that is shown as soon as one read has settled
WordsShownMidFlight(pending, total, shown) == TotalWords(total)

\* the text of totalWordsValueEl after the callbacks of one read have run:
\* Promise.all sets the total once no read is pending
WordsShown(pending, total, shown) ==
    IF pending = {} THEN TotalWords(total) ELSE shown

\* the render whose tree a callback writes to, for callbacks that look the
\* elements up in the container
TargetTreeAttached(id) == attached

\* the render whose tree a callback of render id writes to: the elements its
\* closure holds, which are the elements the render created
TargetTree(id) == id

\* the sidebar to-do section while the task loop is suspended, after it has
\* ended, and after its catch
TodoPending ==
    [rendered |-> TRUE, state |-> "pending", allTasks |-> <<>>, tasksToShow |-> <<>>]
TodoError ==
    [rendered |-> TRUE, state |-> "error", allTasks |-> <<>>, tasksToShow |-> <<>>]
TodoList(tasks, limit) ==
    LET allTasks == SortWith(tasks, {p \in (1..Len(tasks)) \X (1..Len(tasks)) :
                                        TaskBefore(tasks[p[1]], tasks[p[2]])})
    IN  [rendered |-> TRUE, state |-> "list", allTasks |-> allTasks,
         tasksToShow |-> Slice0(allTasks, limit)]

\* the rest of renderHomepageContent after the sidebar to-do section: the
\* to-do notes, the recent edits and the top tags, from the vault and the
\* settings at that time
AfterTasks(tree, id, todo) ==
    [tree EXCEPT
        !.todo = Written(id, todo),
        !.todoNotes = Written(id, IF settings.showTodoNotes
                                  THEN RenderTodoNotes(settings) ELSE Unrendered),
        !.recent = Written(id, IF settings.showRecentEdits
                               THEN RenderRecentEdits(settings, settings.homepageFilePath)
                               ELSE Unrendered),
        !.tags = Written(id, IF settings.showQuickAccess /\ settings.showQuickAccessTopTags
                             THEN RenderTopTags(settings) ELSE Unrendered)]

\* renderHomepageContent up to its first await: the tree it builds, the reads
\* it issues, and where it is suspended; detached tells whether the tree of
\* the render had left the container when its task loop ended
NewRender(id) ==
    LET s == settings
        daily == IF s.showDailyDisplay
                 THEN RenderDailyDisplay(s, locale, clock) ELSE Unrendered
        dailyFile == IF daily.rendered /\ daily.state = "selected"
                     THEN daily.selected ELSE <<>>
        wordFiles == IF s.showVaultStats THEN PathsOf(FilesForWordCount(s)) ELSE <<>>
        queue == IF s.showTodoSidebarSection
                 THEN CollectTasks(SidebarRelevantFiles(s), ExcludedFoldersArray(s))
                 ELSE <<>>
        tree == [daily |-> Written(id, daily),
                 dailyContent |-> Written(id, [state |-> "hidden", text |-> <<>>]),
                 grid |-> Written(id, IF s.showFolderGrid
                                      THEN RenderFolderGrid(s) ELSE Unrendered),
                 stats |-> Written(id, IF s.showVaultStats
                                       THEN [rendered |-> TRUE,
                                             noteCount |-> Len(FilesForTotalNotesCount(s))]
                                       ELSE Unrendered),
                 words |-> Written(id, IF ~s.showVaultStats THEN Unrendered
                                       ELSE IF Len(wordFiles) > 0 THEN Calculating
                                       ELSE TotalWords(0)),
                 todo |-> Written(id, IF s.showTodoSidebarSection
                                      THEN TodoPending ELSE Unrendered),
                 todoNotes |-> Written(id, Unrendered),
                 recent |-> Written(id, Unrendered),
                 tags |-> Written(id, Unrendered)]
    IN  [dailyFile |-> dailyFile,
         dailyPending |-> dailyFile # <<>>,
         wordIssued |-> wordFiles,
         wordPending |-> Range(wordFiles),
         currentTotalWords |-> 0,
         limit |-> s.todoSidebarSectionLimit,
         queue |-> queue,
         tasks |-> <<>>,
         pc |-> IF queue = <<>> THEN "done" ELSE "awaitTask",
         detached |-> FALSE,
         tree |-> IF queue # <<>> THEN tree
                  ELSE AfterTasks(tree, id, IF s.showTodoSidebarSection
                                            THEN TodoList(<<>>, s.todoSidebarSectionLimit)
                                            ELSE Unrendered)]

\* the code block processor runs: el.empty() and renderHomepageContent, which
\* empties the container, so the tree of this render replaces the one before
StartRender ==
    /\ Len(renders) < MaxRenders
    /\ renders' = Append(renders, NewRender(Len(renders) + 1))
    /\ attached' = Len(renders) + 1
    /\ UNCHANGED <<files, folders, settings, locale, clock, dailyOut, dailyPrev,
                   gridOut, todoOut, todoNotesOut, statsOut, tagsOut, unreadable,
                   pageVars, workspaceVars>>

\* the read of the daily note of render id settles: its then or its catch
\* fills dailyNoteContentEl
SettleDailyRead(id) ==
    /\ renders[id].dailyPending
    /\ renders' = [renders EXCEPT
          ![id].dailyPending = FALSE,
          ![TargetTree(id)].tree.dailyContent =
              Written(id, DailyContent(renders[id].dailyFile))]
    /\ UNCHANGED <<files, folders, settings, locale, clock, dailyOut, dailyPrev,
                   gridOut, todoOut, todoNotesOut, statsOut, tagsOut, unreadable,
                   attached, pageVars, workspaceVars>>

\* the read of one file of the word count of render id settles: its then
\* adds the words of the file, its catch adds nothing, and Promise.all shows
\* the total when it was the last read
SettleWordRead(id, path) ==
    /\ path \in renders[id].wordPending
    /\ LET pending == renders[id].wordPending \ {path}
           total == renders[id].currentTotalWords + WordsOfRead(path)
       IN  renders' = [renders EXCEPT
              ![id].wordPending = pending,
              ![id].currentTotalWords = total,
              ![TargetTree(id)].tree.words =
                  IF WordsShown(pending, total, @.out) = @.out THEN @
                  ELSE Written(id, WordsShown(pending, total, @.out))]
    /\ UNCHANGED <<files, folders, settings, locale, clock, dailyOut, dailyPrev,
                   gridOut, todoOut, todoNotesOut, statsOut, tagsOut, unreadable,
                   attached, pageVars, workspaceVars>>

\* the awaited getOriginalTaskText of render id settles: the task is pushed
\* and the loop goes on to the next task, where it is suspended again, or it
\* ends and the list is sorted, cut and rendered, followed by the sections
\* after it; a throw goes to the catch of the section
SettleTaskRead(id) ==
    /\ renders[id].pc = "awaitTask"
    /\ LET rec == renders[id]
           task == rec.queue[Len(rec.tasks) + 1]
           res == GetOriginalTaskText(task.file, task.line)
           tasks == Append(rec.tasks, [file |-> task.file, line |-> task.line,
                                       status |-> task.status, mtime |-> task.mtime,
                                       text |-> res.text])
           target == TargetTree(id)
       IN  renders' =
              IF res.threw
              THEN [renders EXCEPT
                      ![id].pc = "done",
                      ![id].detached = attached # id,
                      ![target].tree = AfterTasks(@, id, TodoError)]
              ELSE IF Len(tasks) < Len(rec.queue)
              THEN [renders EXCEPT ![id].tasks = tasks]
              ELSE [renders EXCEPT
                      ![id].tasks = tasks,
                      ![id].pc = "done",
                      ![id].detached = attached # id,
                      ![target].tree = AfterTasks(@, id, TodoList(tasks, rec.limit))]
    /\ UNCHANGED <<files, folders, settings, locale, clock, dailyOut, dailyPrev,
                   gridOut, todoOut, todoNotesOut, statsOut, tagsOut, unreadable,
                   attached, pageVars, workspaceVars>>

\* the notes of the vault of the render specification
AsyncCatalog ==
    <<TFile(<<"a", ".", "m", "d">>, 2, <<>>, FormKey :> Str(<<"p", "o", "e", "m">>),
            <<ListItem("x", 1), ListItem("/", 2)>>),
      TFile(<<"b", ".", "m", "d">>, 3, << <<"#", "x">> >>, NoFrontmatter, <<ListItem(" ", 4)>>),
      TFile(<<"T", "e", "m", "p", "l", "a", "t", "e", "s", "/", "t", ".", "m", "d">>, 1, <<>>, NoFrontmatter, <<ListItem(" ", 0)>>)>>

\* the sets of files whose reads are rejected
UnreadableInputs == {{}, { <<"a", ".", "m", "d">> }}

InitAsync ==
    /\ files = AsyncCatalog
    /\ folders = << <<"T", "e", "m", "p", "l", "a", "t", "e", "s">> >>
    /\ settings = [DefaultSettings EXCEPT
                      !.excludedTopFolders = <<"T", "e", "m", "p", "l", "a", "t", "e", "s">>,
                      !.showFolderGrid = FALSE,
                      !.todoSidebarSectionLimit = MaxLimit]
    /\ locale = "en"
    /\ clock = 0
    /\ dailyOut = Unrendered
    /\ dailyPrev = Unrendered
    /\ gridOut = Unrendered
    /\ todoOut = Unrendered
    /\ todoNotesOut = Unrendered
    /\ statsOut = Unrendered
    /\ tagsOut = Unrendered
    /\ unreadable \in UnreadableInputs
    /\ renders = <<>>
    /\ attached = 0
    /\ InitPage
    /\ InitOnHomepage

NextAsync ==
    \/ StartRender
    \/ \E id \in 1..Len(renders) : SettleDailyRead(id)
    \/ \E id \in 1..Len(renders) : \E path \in renders[id].wordPending :
          SettleWordRead(id, path)
    \/ \E id \in 1..Len(renders) : SettleTaskRead(id)

SpecAsync == InitAsync /\ [][NextAsync]_vars

(***************************************************************************)
(* Properties of the renders in flight                                     *)
(***************************************************************************)

\* the words of the files of the vault, counted by hand: the text without
\* its frontmatter block, split at white space
WordsOnDisk == (<<"a", ".", "m", "d">> :> 11) @@ (<<"b", ".", "m", "d">> :> 5) @@ (<<"T", "e", "m", "p", "l", "a", "t", "e", "s", "/", "t", ".", "m", "d">> :> 4)

\* the sum of the words of a set of files
RECURSIVE WordsOnDiskOf(_)
WordsOnDiskOf(paths) ==
    IF paths = {} THEN 0
    ELSE LET q == CHOOSE q \in paths : TRUE
         IN  WordsOnDisk[q] + WordsOnDiskOf(paths \ {q})

\* the files of the word count: the counted notes whose path does not start
\* with an excluded word-count entry
EligibleForWordCount == {q \in CountedNotes : ~HasWordcountPrefix(q)}

\* C15: the reads of all eligible files are issued when the render starts,
\* before any of them has settled; while a read is pending the total words
\* element shows the 'calculating' placeholder; once every read has settled
\* it shows the sum of the words of the files whose read succeeded, whatever
\* the order in which the reads settled
C15_TotalAfterAllReadsSettled ==
    LET eligible == EligibleForWordCount
        total == TotalWords(WordsOnDiskOf(eligible \ unreadable))
    IN  \A id \in 1..Len(renders) :
            LET r == renders[id]
            IN  /\ Range(r.wordIssued) = eligible
                /\ Len(r.wordIssued) = Cardinality(eligible)
                /\ r.wordPending \subseteq eligible
                /\ r.wordPending # {} => r.tree.words.out = Calculating
                /\ r.wordPending = {} => r.tree.words.out = total

\* a render whose two reads have settled, one of them rejected, next to a
\* render that still waits for one of its reads after the other has settled
C15_Witness ==
    \E id, other \in 1..Len(renders) :
        /\ Len(renders[id].wordIssued) >= 2
        /\ renders[id].wordPending = {}
        /\ Range(renders[id].wordIssued) \cap unreadable # {}
        /\ renders[id].tree.words.out.state = "total"
        /\ renders[id].tree.words.out.n > 0
        /\ Cardinality(renders[other].wordPending) = 1
        /\ renders[other].currentTotalWords > 0

\* the text of each task of the vault, read by hand from the files
TextOnDisk ==
    (<< <<"a", ".", "m", "d">>, 2 >> :> <<"t", "w", "o", " ", "w", "o", "r", "d", "s">>) @@ (<< <<"b", ".", "m", "d">>, 4 >> :> <<"t", "h", "r", "e", "e">>)

\* the names of the files, for the placeholder
NameOnDisk == (<<"a", ".", "m", "d">> :> <<"a">>) @@ (<<"b", ".", "m", "d">> :> <<"b">>)

\* C18: a rejected read of one file does not abort the task extraction: the
\* list holds every task, each task of the failing file with the placeholder
\* that names the file, the tasks of the other files with their text, and
\* the section never shows its error message
C18_FailedReadGivesPlaceholder ==
    \A id \in 1..Len(renders) :
        LET r == renders[id]
            todo == r.tree.todo.out
        IN  /\ todo.state # "error"
            /\ r.pc = "done" =>
                  /\ todo.state = "list"
                  /\ Len(todo.allTasks) = Len(r.queue)
                  /\ \A i \in 1..Len(r.queue) : \E j \in 1..Len(todo.allTasks) :
                        /\ todo.allTasks[j].file = r.queue[i].file
                        /\ todo.allTasks[j].line = r.queue[i].line
                  /\ \A j \in 1..Len(todo.allTasks) :
                        LET t == todo.allTasks[j]
                        IN  IF t.file \in unreadable
                            THEN t.text.kind = "readError" /\ t.text.s = NameOnDisk[t.file]
                            ELSE t.text.kind = "text"
                                     /\ t.text.s = TextOnDisk[<<t.file, t.line>>]

\* a finished list with a task of a file whose read was rejected and a task
\* of a file that was read
C18_Witness ==
    \E id \in 1..Len(renders) :
        /\ renders[id].pc = "done"
        /\ \E i, j \in 1..Len(renders[id].tree.todo.out.tasksToShow) :
              /\ renders[id].tree.todo.out.tasksToShow[i].file \in unreadable
              /\ renders[id].tree.todo.out.tasksToShow[j].file \notin unreadable
              /\ renders[id].tree.todo.out.tasksToShow[j].text.kind = "text"

\* C19: a read that has not settled delays only the word total or the task
\* list: every other enabled section of a render that has started (the daily
\* display, the to-do notes, the top tags) is there whatever reads are pending
C19_PendingReadDelaysOnlyItsAggregate ==
    \A id \in 1..Len(renders) :
        LET tree == renders[id].tree
        IN  /\ settings.showDailyDisplay => tree.daily.out.rendered
            /\ settings.showVaultStats => tree.stats.out.rendered
            /\ settings.showTodoNotes => tree.todoNotes.out.rendered
            /\ (settings.showQuickAccess /\ settings.showQuickAccessTopTags)
                  => tree.tags.out.rendered

\* C20: whatever a render finds after its reads goes to the elements that
\* render created: every element of the tree of a render, so of the tree in
\* the container, was written by that render
C20_EarlierRenderLeavesNewerOutput ==
    \A id \in 1..Len(renders) :
        \A el \in DOMAIN renders[id].tree : renders[id].tree[el].by = id

\* a second render was started while the first one waited for its reads; the
\* task loop of the first ended after that, and all reads of both have settled
C20_Witness ==
    /\ Len(renders) >= 2
    /\ attached = 2
    /\ renders[1].detached
    /\ \A id \in 1..2 :
          /\ renders[id].pc = "done"
          /\ renders[id].wordPending = {}
          /\ ~renders[id].dailyPending
          /\ renders[id].tree.todo.out.state = "list"
          /\ renders[id].tree.words.out.state = "total"
          /\ renders[id].tree.dailyContent.out.state # "hidden"

(***************************************************************************)
(* Stored settings: loadSettings over data.json                            *)
(***************************************************************************)

\* loadSettings: Object.assign({}, DEFAULT_SETTINGS, await this.loadData());
\* every field of the stored data replaces the default as it is
LoadSettings(data) ==
    [f \in DOMAIN DefaultSettings |->
        IF f \in DOMAIN data THEN data[f] ELSE DefaultSettings[f]]

\* the homepage note
HomeNote == TFile(DefaultHomepageFilePath, 4, <<>>, NoFrontmatter, <<>>)

\* the values of dynamicNoteListModules in the stored data
StoredModules ==
    {Arr(<<>>),
     Arr(<<Module(TRUE, <<"R", "e", "a", "d", "i", "n", "g">>), Module(FALSE, <<"D", "r", "a", "f", "t", "s">>)>>),
     Arr(<<Module(TRUE, <<"R", "e", "a", "d", "i", "n", "g">>), Null, Module(TRUE, <<"D", "r", "a", "f", "t", "s">>)>>),
     Null}

\* onChange of the "Show Folder Grid" toggle
SetShowFolderGrid ==
    \E value \in BOOLEAN : SaveSettings([settings EXCEPT !.showFolderGrid = value])

\* onChange of the "Show Recent Edits" toggle
SetShowRecentEdits ==
    \E value \in BOOLEAN : SaveSettings([settings EXCEPT !.showRecentEdits = value])

\* onChange of the "Show Bookmarks" toggle
SetShowQuickAccessBookmarks ==
    \E value \in BOOLEAN :
        SaveSettings([settings EXCEPT !.showQuickAccessBookmarks = value])

\* the plugin has loaded a data.json whose dynamicNoteListModules is one of
\* StoredModules, and the homepage note is open
InitFaults ==
    /\ files = <<HomeNote>> \o AsyncCatalog
    /\ folders = << <<"T", "e", "m", "p", "l", "a", "t", "e", "s">> >>
    /\ \E modules \in StoredModules :
          settings = LoadSettings([dynamicNoteListModules |-> modules])
    /\ locale = "en"
    /\ clock = 0
    /\ dailyOut = Unrendered
    /\ dailyPrev = Unrendered
    /\ gridOut = Unrendered
    /\ todoOut = Unrendered
    /\ todoNotesOut = Unrendered
    /\ statsOut = Unrendered
    /\ tagsOut = Unrendered
    /\ unreadable = {}
    /\ renders = <<>>
    /\ attached = 0
    /\ InitPage
    /\ InitOnHomepage

NextFaults ==
    \/ RenderHomepageContent
    \/ SetShowFolderGrid
    \/ SetShowRecentEdits
    \/ SetShowQuickAccessBookmarks
    \/ SetExcludedTopFolders

SpecFaults == InitFaults /\ [][NextFaults]_vars

\* whether the render has run since the view was last rebuilt: the dynamic
\* note lists area is created whatever the settings are
RenderHasRun == modulesOut.rendered

\* C21: an exception raised while computing one section (the dynamic note
\* list modules among them) is caught inside that section and never prevents
\* another enabled section of the same render: once the render has run,
\* every enabled section is in the page, with its content or its error
\* indicator
C21_ThrowingSectionLeavesOthersRendered ==
    RenderHasRun =>
        /\ settings.showDailyDisplay => dailyOut.rendered
        /\ settings.showFolderGrid => gridOut.rendered
        /\ settings.showVaultStats => statsOut.rendered
        /\ settings.showTodoSidebarSection => todoOut.rendered
        /\ settings.showTodoNotes => todoNotesOut.rendered
        /\ settings.showRecentEdits => recentOut.rendered
        /\ (settings.showQuickAccess /\ settings.showQuickAccessTopTags) => tagsOut.rendered
        /\ (settings.showQuickAccess /\ settings.showQuickAccessBookmarks)
              => bookmarksOut.rendered

(***************************************************************************)
(* The collapsibles and the 'show more' toggles of the folder grid         *)
(***************************************************************************)

\* the handler of setupAccordion with the sibling mode tested before the
\* global mode
SetupAccordionHandlerSiblingFirst(d, k, s) ==
    IF s.accordionModeForDetails
    THEN [q \in DOMAIN d |->
             IF q # k /\ q[1] = k[1] THEN [d[q] EXCEPT !.open = FALSE] ELSE d[q]]
    ELSE IF s.globalAccordionMode
    THEN [q \in DOMAIN d |-> IF q # k THEN [d[q] EXCEPT !.open = FALSE] ELSE d[q]]
    ELSE d

\* the 'toggle' handler of setupAccordion for a <details> k that is open: in
\* global mode it closes every other <details> of the homepage container,
\* else in sibling mode the other <details> children of the same
\* folder-card-content (the elements of the same card)
SetupAccordionHandler(d, k, s) ==
    IF s.globalAccordionMode
    THEN [q \in DOMAIN d |-> IF q # k THEN [d[q] EXCEPT !.open = FALSE] ELSE d[q]]
    ELSE IF s.accordionModeForDetails
    THEN [q \in DOMAIN d |->
             IF q # k /\ q[1] = k[1] THEN [d[q] EXCEPT !.open = FALSE] ELSE d[q]]
    ELSE d

\* the user clicks the summary of a <details>: it opens or closes, and its
\* 'toggle' event is handled when setupAccordion registered a handler; the
\* 'toggle' events of the elements the handler closes find them closed
ToggleDetails(k) ==
    /\ k \in DOMAIN details
    /\ LET toggled == [details EXCEPT ![k].open = ~details[k].open]
       IN  details' = IF toggled[k].listening /\ toggled[k].open
                      THEN SetupAccordionHandler(toggled, k, settings)
                      ELSE toggled
    /\ UNCHANGED <<files, folders, settings, locale, clock,
                   dailyOut, dailyPrev, gridOut, todoOut, todoNotesOut,
                   statsOut, tagsOut, unreadable, renders, attached,
                   recentOut, modulesOut, bookmarksOut, lists, links, workspaceVars>>

\* document.getElementById: the first element in document order with the id,
\* <<>> when there is none
GetElementById(id) ==
    LET order == ListKeys(gridOut)
        found == {i \in 1..Len(order) : lists[order[i]].id = id}
    IN  IF found = {} THEN <<>>
        ELSE order[CHOOSE i \in found : \A j \in found : i <= j]

\* toggleMoreNotes(listId, linkElement) for the link of key k
ToggleMoreNotes(listId, k) ==
    LET list == GetElementById(listId)
        initialDisplayCount == ParseIntSigned(links[k].initialDisplayCount)
        totalNotes == ParseIntSigned(links[k].totalNotes)
    IN  IF list = <<>>
        THEN UNCHANGED <<lists, links>>
        ELSE IF "enable-scroll-on-overflow" \in lists[list].classes
        THEN /\ lists' = [lists EXCEPT ![list].classes =
                             (@ \ {"enable-scroll-on-overflow"}) \cup {"hide-overflow-notes"}]
             /\ links' = [links EXCEPT ![k].text =
                             ViewAllText(locale, NumberToString(totalNotes),
                                         NumberToString(initialDisplayCount))]
        ELSE /\ lists' = [lists EXCEPT ![list].classes =
                             (@ \ {"hide-overflow-notes"}) \cup {"enable-scroll-on-overflow"}]
             /\ links' = [links EXCEPT ![k].text = CollapseText(locale)]

\* the user clicks the 'toggle-more-link' of key k, which is in view when
\* its <details> is open (the list of the root notes is in no <details>)
ClickToggleLink(k) ==
    /\ k \in DOMAIN links
    /\ k = RootKey \/ details[k].open
    /\ ToggleMoreNotes(links[k].listId, k)
    /\ UNCHANGED <<files, folders, settings, locale, clock,
                   dailyOut, dailyPrev, gridOut, todoOut, todoNotesOut,
                   statsOut, tagsOut, unreadable, renders, attached,
                   recentOut, modulesOut, bookmarksOut, details, workspaceVars>>

\* onChange of the "Enable Accordion Mode" toggle, which is disabled while
\* the global mode is on
SetAccordionModeForDetails ==
    /\ ~settings.globalAccordionMode
    /\ \E value \in BOOLEAN :
          SaveSettings([settings EXCEPT !.accordionModeForDetails = value])

\* onChange of the "Enable Global Accordion Mode" toggle
SetGlobalAccordionMode ==
    \E value \in BOOLEAN :
        SaveSettings([settings EXCEPT !.globalAccordionMode = value])

\* the names of the second top-level folder of the vaults of the
\* specification of the collapsibles
SecondFolderNames == { <<"P","o","-","e","m","s">>, <<"P","r","o","s","e">> }

\* the notes of those vaults: two folders, each with a subfolder of three
\* notes and a direct note, and the root notes
AccordionCatalog(second) ==
    <<TFile(<<"P", "o", "e", "m", "s", "/", "T", "a", "n", "g", "/", "a", ".", "m", "d">>, 1, <<>>, NoFrontmatter, <<>>),
      TFile(<<"P", "o", "e", "m", "s", "/", "T", "a", "n", "g", "/", "b", ".", "m", "d">>, 2, <<>>, NoFrontmatter, <<>>),
      TFile(<<"P", "o", "e", "m", "s", "/", "T", "a", "n", "g", "/", "c", ".", "m", "d">>, 3, <<>>, NoFrontmatter, <<>>),
      TFile(<<"P", "o", "e", "m", "s", "/", "d", ".", "m", "d">>, 4, <<>>, NoFrontmatter, <<>>),
      TFile(second \o <<"/", "S", "o", "n", "g", "/", "e", ".", "m", "d">>, 5, <<>>, NoFrontmatter, <<>>),
      TFile(second \o <<"/", "S", "o", "n", "g", "/", "f", ".", "m", "d">>, 6, <<>>, NoFrontmatter, <<>>),
      TFile(second \o <<"/", "S", "o", "n", "g", "/", "g", ".", "m", "d">>, 7, <<>>, NoFrontmatter, <<>>),
      TFile(second \o <<"/", "h", ".", "m", "d">>, 8, <<>>, NoFrontmatter, <<>>),
      HomeNote>>

InitAccordion ==
    /\ \E second \in SecondFolderNames :
          /\ files = AccordionCatalog(second)
          /\ folders = << <<"P", "o", "e", "m", "s">>, <<"P", "o", "e", "m", "s", "/", "T", "a", "n", "g">>, second, second \o <<"/", "S", "o", "n", "g">> >>
    /\ settings = [DefaultSettings EXCEPT
                      !.showDailyDisplay = FALSE,
                      !.showVaultStats = FALSE,
                      !.showQuickAccess = FALSE,
                      !.showTodoSidebarSection = FALSE,
                      !.showTodoNotes = FALSE,
                      !.showRecentEdits = FALSE,
                      !.initialNotesInSubfolderDisplay = MaxLimit]
    /\ locale \in {"en", "zh-cn"}
    /\ clock = 0
    /\ dailyOut = Unrendered
    /\ dailyPrev = Unrendered
    /\ gridOut = Unrendered
    /\ todoOut = Unrendered
    /\ todoNotesOut = Unrendered
    /\ statsOut = Unrendered
    /\ tagsOut = Unrendered
    /\ unreadable = {}
    /\ renders = <<>>
    /\ attached = 0
    /\ InitPage
    /\ InitOnHomepage

NextAccordion ==
    \/ RenderHomepageContent
    \/ SetAccordionModeForDetails
    \/ SetGlobalAccordionMode
    \/ SetInitialNotesInSubfolderDisplay
    \/ \E k \in DOMAIN details : ToggleDetails(k)
    \/ \E k \in DOMAIN links : ClickToggleLink(k)

SpecAccordion == InitAccordion /\ [][NextAccordion]_vars

\* the <details> that are open
OpenDetails == {k \in DOMAIN details : details[k].open}

\* whether opening k closes q under the accordion modes of the settings
ClosedByOpening(q, k) ==
    \/ settings.globalAccordionMode
    \/ (settings.accordionModeForDetails /\ q[1] = k[1])

C29_ToggleSwitchesItsList ==
    \A k \in DOMAIN links :
        /\ Cardinality(lists[k].classes
                \cap {"hide-overflow-notes", "enable-scroll-on-overflow"}) = 1
        /\ ("hide-overflow-notes" \in lists[k].classes)
              <=> (links[k].text = ViewAllText(locale, links[k].totalNotes,
                                               links[k].initialDisplayCount))
        /\ ("enable-scroll-on-overflow" \in lists[k].classes)
              <=> (links[k].text = CollapseText(locale))

\* no two lists of the page have the same id
ListIdsUnique ==
    \A k \in DOMAIN lists, q \in DOMAIN lists : k # q => lists[k].id # lists[q].id

\* what the code does: the toggle of a list switches that list and keeps the
\* text of the link in step with it when no other list has the same id
ToggleSwitchesItsListWhenIdsUnique == ListIdsUnique => C29_ToggleSwitchesItsList

(***************************************************************************)
(* Stored settings with empty fields and limits out of the slider ranges   *)
(***************************************************************************)

\* the values of todoTagQuery, dailyDisplayMetadataField and
\* dailyDisplayForms in the stored data
StoredQueries == {DefaultTodoTagQuery, <<>>, <<" ", " ">>}
StoredFields == {DefaultDailyDisplayMetadataField, <<" ">>}
StoredForms == {DefaultSettings.dailyDisplayForms, <<" ", ",", " ">>}

\* the values of a limit in the stored data
StoredLimits == {-1, 0, MaxLimit}

\* the plugin has loaded a data.json with those values, and the homepage
\* note is open
InitLoad ==
    /\ files = <<HomeNote>> \o AsyncCatalog
    /\ folders = << <<"T", "e", "m", "p", "l", "a", "t", "e", "s">> >>
    /\ \E query \in StoredQueries, field \in StoredFields, forms \in StoredForms,
          limit \in StoredLimits :
          settings = LoadSettings([todoTagQuery |-> query,
                                   dailyDisplayMetadataField |-> field,
                                   dailyDisplayForms |-> forms,
                                   todoFilesLimit |-> limit,
                                   excludedTopFolders |-> <<"t", "e", "m", "p", "l", "a", "t", "e", "s">>])
    /\ locale = "en"
    /\ clock = 0
    /\ dailyOut = Unrendered
    /\ dailyPrev = Unrendered
    /\ gridOut = Unrendered
    /\ todoOut = Unrendered
    /\ todoNotesOut = Unrendered
    /\ statsOut = Unrendered
    /\ tagsOut = Unrendered
    /\ unreadable = {}
    /\ renders = <<>>
    /\ attached = 0
    /\ InitPage
    /\ InitOnHomepage

NextLoad ==
    \/ RenderHomepageContent
    \/ SetTodoFilesLimit
    \/ SetRecentNotesInCategoryLimit

SpecLoad == InitLoad /\ [][NextLoad]_vars

\* the required fields of the daily display and of the to-do notes
DailyNotConfigured ==
    Trim(settings.dailyDisplayMetadataField) = <<>> \/ AllowedForms(settings) = <<>>
TodoNotesNotConfigured == Trim(settings.todoTagQuery) = <<>>

\* C23: when a required configuration field is empty (the metadata key or
\* the allowed forms of the daily display, the query of the to-do notes),
\* the feature shows 'not configured' and selects or lists no note, and
\* every other enabled feature is still rendered
C23_EmptyFieldShowsNotConfigured ==
    RenderHasRun =>
        /\ (settings.showDailyDisplay /\ DailyNotConfigured) =>
              /\ dailyOut.rendered
              /\ dailyOut.state = "notConfigured"
              /\ dailyOut.selected = <<>>
        /\ (settings.showTodoNotes /\ TodoNotesNotConfigured) =>
              /\ todoNotesOut.rendered
              /\ todoNotesOut.notConfigured
              /\ todoNotesOut.notesToShow = <<>>
        /\ (DailyNotConfigured \/ TodoNotesNotConfigured) =>
              /\ settings.showDailyDisplay => dailyOut.rendered
              /\ settings.showFolderGrid => gridOut.rendered
              /\ settings.showVaultStats => statsOut.rendered
              /\ settings.showTodoSidebarSection => todoOut.rendered
              /\ settings.showTodoNotes => todoNotesOut.rendered
              /\ settings.showRecentEdits => recentOut.rendered
              /\ (settings.showQuickAccess /\ settings.showQuickAccessTopTags)
                    => tagsOut.rendered
              /\ (settings.showQuickAccess /\ settings.showQuickAccessBookmarks)
                    => bookmarksOut.rendered

\* the page is rendered with an empty to-do notes query while the daily
\* display is configured and has selected a note
C23_Witness ==
    /\ RenderHasRun
    /\ TodoNotesNotConfigured
    /\ todoNotesOut.rendered /\ todoNotesOut.notConfigured
    /\ ~DailyNotConfigured
    /\ dailyOut.rendered /\ dailyOut.state = "selected"
    /\ gridOut.rendered /\ recentOut.rendered /\ Len(recentOut.notesToShow) > 0

\* C24: every count limit read from the configuration (initial notes per
\* list, recent notes per category, to-do limit, to-do-notes limit,
\* recent-edits limit, top-tags limit) is an integer of at least 1 in every
\* reachable state, after loading the stored settings and after any settings
\* change
C24_LimitsAtLeastOne ==
    /\ settings.initialNotesInSubfolderDisplay >= 1
    /\ settings.recentNotesInCategoryLimit >= 1
    /\ settings.todoSidebarSectionLimit >= 1
    /\ settings.todoFilesLimit >= 1
    /\ settings.recentFilesLimitSidebar >= 1
    /\ settings.topTagsLimit >= 1

(***************************************************************************)
(* The recent edits                                                        *)
(***************************************************************************)

\* the notes of the vaults of the specification of the recent edits
RecentCatalog ==
    <<TFile(<<"N", "o", "t", "e", "s", "/", "a", ".", "m", "d">>, 2, <<>>, NoFrontmatter, <<>>),
      HomeNote,
      TFile(<<"T", "e", "m", "p", "l", "a", "t", "e", "s", "/", "t", ".", "m", "d">>, 5, <<>>, NoFrontmatter, <<>>),
      TFile(<<"N", "o", "t", "e", "s", "/", "b", ".", "m", "d">>, 2, <<>>, NoFrontmatter, <<>>),
      TFile(<<"c", ".", "m", "d">>, 3, <<>>, NoFrontmatter, <<>>),
      TFile(<<"T", "e", "m", "p", "l", "a", "t", "e", "s", "O", "l", "d", "/", "o", ".", "m", "d">>, 1, <<>>, NoFrontmatter, <<>>)>>

\* onChange of the "Recent Edits Limit" slider
SetRecentFilesLimitSidebar ==
    \E val \in 1..MaxLimit :
        SaveSettings([settings EXCEPT !.recentFilesLimitSidebar = val])

InitRecent ==
    /\ \E pairs \in SubSeqs(RecentCatalog) :
          /\ files = Second(pairs)
          /\ HomeNote \in Range(files)
    /\ folders = FoldersOf(files, << <<"N", "o", "t", "e", "s">>, <<"T", "e", "m", "p", "l", "a", "t", "e", "s">>, <<"T", "e", "m", "p", "l", "a", "t", "e", "s", "O", "l", "d">> >>, {})
    /\ settings = [DefaultSettings EXCEPT
                      !.showDailyDisplay = FALSE,
                      !.showFolderGrid = FALSE,
                      !.showVaultStats = FALSE,
                      !.showQuickAccess = FALSE,
                      !.showTodoSidebarSection = FALSE,
                      !.showTodoNotes = FALSE,
                      !.recentFilesLimitSidebar = MaxLimit]
    /\ locale = "en"
    /\ clock = 0
    /\ dailyOut = Unrendered
    /\ dailyPrev = Unrendered
    /\ gridOut = Unrendered
    /\ todoOut = Unrendered
    /\ todoNotesOut = Unrendered
    /\ statsOut = Unrendered
    /\ tagsOut = Unrendered
    /\ unreadable = {}
    /\ renders = <<>>
    /\ attached = 0
    /\ InitPage
    /\ InitOnHomepage

NextRecent ==
    \/ RenderHomepageContent
    \/ SetExcludedTopFolders
    \/ SetRecentFilesLimitSidebar

SpecRecent == InitRecent /\ [][NextRecent]_vars

\* the notes that are neither the homepage note nor under an excluded
\* top-level folder
RemainingNotes ==
    {f \in FileSet : /\ f.path # settings.homepageFilePath
                     /\ ~UnderExcludedTopFolder(f.path)}

\* the place of a note in the order of the vault
PlaceInVault(path) == CHOOSE i \in 1..Len(files) : files[i].path = path

\* a note is listed before another one: the newer one, and of two notes of
\* equal modification time the one that comes first in the vault
ListedBefore(a, b) ==
    \/ a.mtime > b.mtime
    \/ (a.mtime = b.mtime /\ PlaceInVault(a.path) < PlaceInVault(b.path))

\* C26: the recent edits list never holds the homepage note nor a note under
\* an excluded top-level folder; it holds min(limit, remaining) notes, the
\* most recently modified of the remaining ones, newest first, with notes of
\* equal modification time in their original relative order
C26_RecentEditsNewestRemaining ==
    recentOut.rendered =>
        LET shown == recentOut.notesToShow
            remaining == RemainingNotes
            note == [p \in {f.path : f \in remaining} |->
                        CHOOSE f \in remaining : f.path = p]
        IN  /\ \A i \in 1..Len(shown) : shown[i] \in DOMAIN note
            /\ \A i, j \in 1..Len(shown) : i # j => shown[i] # shown[j]
            /\ Len(shown) = Min(settings.recentFilesLimitSidebar, Cardinality(remaining))
            /\ \A i, j \in 1..Len(shown) :
                  i < j => ListedBefore(note[shown[i]], note[shown[j]])
            /\ \A i \in 1..Len(shown) :
                  \A f \in remaining :
                      f.path \notin Range(shown) => ListedBefore(note[shown[i]], f)

\* the list is cut at the limit, the vault holds the homepage note and an
\* excluded note that are both newer than a listed note, and two listed
\* notes have the same modification time
C26_Witness ==
    /\ recentOut.rendered
    /\ Len(recentOut.notesToShow) = settings.recentFilesLimitSidebar
    /\ Cardinality(RemainingNotes) > settings.recentFilesLimitSidebar
    /\ \E f \in FileSet : UnderExcludedTopFolder(f.path) /\ f.mtime > 3
    /\ \E f \in RemainingNotes : StartsWith(f.path, <<"T", "e", "m", "p", "l", "a", "t", "e", "s", "O", "l", "d", "/">>)

(***************************************************************************)
(* The workspace: the body class and navigateToHomepage                    *)
(***************************************************************************)

\* the most leaves of a workspace
MaxLeaves == 3

\* checkAndApplyHomepageStylesForLeaf for the leaf of index l (0 for no
\* leaf): whether it adds or removes the body class
CheckAndApplyHomepageStylesForLeaf(l, s) ==
    /\ l # 0
    /\ leaves[l].type = "markdown"
    /\ leaves[l].file # <<>>
    /\ leaves[l].file = s.homepageFilePath

\* the workspace makes the leaf of index l the active one (0 for none) and
\* triggers 'active-leaf-change', which handleActiveLeafChange handles
\* while the plugin is loaded
ActiveLeafChange(l) ==
    /\ l \in 0..Len(leaves)
    /\ l # activeLeaf
    /\ l # 0 => leaves[l].opening = <<>>
    /\ activeLeaf' = l
    /\ bodyClass' = IF loaded THEN CheckAndApplyHomepageStylesForLeaf(l, settings)
                    ELSE bodyClass
    /\ UNCHANGED <<files, folders, settings, locale, clock,
                   dailyOut, dailyPrev, gridOut, todoOut, todoNotesOut,
                   statsOut, tagsOut, unreadable, renders, attached,
                   pageVars, leaves, loaded>>

\* the user opens a note in a new tab, which becomes the active leaf
OpenTab(path) ==
    /\ Len(leaves) < MaxLeaves
    /\ leaves' = Append(leaves, Leaf("markdown", path, <<>>, FALSE))
    /\ activeLeaf' = Len(leaves) + 1
    /\ bodyClass' = IF loaded THEN path = settings.homepageFilePath ELSE bodyClass
    /\ UNCHANGED <<files, folders, settings, locale, clock,
                   dailyOut, dailyPrev, gridOut, todoOut, todoNotesOut,
                   statsOut, tagsOut, unreadable, renders, attached,
                   pageVars, loaded>>

\* the texts typed into "Homepage File Path"
HomepagePathInputs == {<<>>, <<" ", "c", ".", "m", "d", " ">>, <<"H", "o", "m", "e", ".", "m", "d">>,
                       <<"M", "i", "s", "s", "i", "n", "g", ".", "m", "d">>}

\* onChange of "Homepage File Path": value.trim() || DEFAULT, saveSettings
SetHomepageFilePath ==
    /\ loaded
    /\ \E value \in HomepagePathInputs :
          SaveSettings([settings EXCEPT !.homepageFilePath =
                           OrDefault(Trim(value), DefaultHomepageFilePath)])

\* onunload: removes the body class; the registered events are detached
Unload ==
    /\ loaded
    /\ loaded' = FALSE
    /\ bodyClass' = FALSE
    /\ UNCHANGED <<files, folders, settings, locale, clock,
                   dailyOut, dailyPrev, gridOut, todoOut, todoNotesOut,
                   statsOut, tagsOut, unreadable, renders, attached,
                   pageVars, leaves, activeLeaf>>

\* onload with the stored settings: applies the body class for the leaf of
\* the active Markdown view
Load ==
    /\ ~loaded
    /\ loaded' = TRUE
    /\ bodyClass' = CheckAndApplyHomepageStylesForLeaf(activeLeaf, settings)
    /\ UNCHANGED <<files, folders, settings, locale, clock,
                   dailyOut, dailyPrev, gridOut, todoOut, todoNotesOut,
                   statsOut, tagsOut, unreadable, renders, attached,
                   pageVars, leaves, activeLeaf>>

\* getAbstractFileByPath(path) instanceof TFile
IsTFilePath(path) == \E i \in 1..Len(files) : files[i].path = path

\* the leaves of getLeavesOfType("markdown") that show the file of a path
LeavesShowing(path) ==
    {l \in 1..Len(leaves) : leaves[l].type = "markdown" /\ leaves[l].file = path}

\* navigateToHomepage up to the await of openFile: nothing for an empty path
\* or a path that is not a file; the first Markdown leaf that shows the
\* homepage is made the active leaf, which triggers 'active-leaf-change';
\* else getLeaf('tab') creates a leaf and openFile starts loading the file
NavigateToHomepage ==
    /\ loaded
    /\ LET homepagePath == settings.homepageFilePath
           showing == LeavesShowing(homepagePath)
           target == CHOOSE l \in showing : \A q \in showing : l <= q
       IN  IF homepagePath = <<>> \/ ~IsTFilePath(homepagePath)
           THEN UNCHANGED <<leaves, activeLeaf, bodyClass>>
           ELSE IF showing # {}
           THEN /\ activeLeaf' = target
                /\ bodyClass' = TRUE
                /\ UNCHANGED leaves
           ELSE /\ Len(leaves) < MaxLeaves
                /\ leaves' = Append(leaves, Leaf("empty", <<>>, homepagePath, TRUE))
                /\ UNCHANGED <<activeLeaf, bodyClass>>
    /\ UNCHANGED <<files, folders, settings, locale, clock,
                   dailyOut, dailyPrev, gridOut, todoOut, todoNotesOut,
                   statsOut, tagsOut, unreadable, renders, attached,
                   pageVars, loaded>>

\* targetLeaf.openFile(homepageFile, {active: true}) settles: the leaf shows
\* the file in a Markdown view and becomes the active leaf
OpenFileSettles(l) ==
    /\ l \in 1..Len(leaves)
    /\ leaves[l].opening # <<>>
    /\ leaves' = [leaves EXCEPT ![l] = Leaf("markdown", @.opening, <<>>, @.byPlugin)]
    /\ activeLeaf' = l
    /\ bodyClass' = IF loaded THEN leaves[l].opening = settings.homepageFilePath
                    ELSE bodyClass
    /\ UNCHANGED <<files, folders, settings, locale, clock,
                   dailyOut, dailyPrev, gridOut, todoOut, todoNotesOut,
                   statsOut, tagsOut, unreadable, renders, attached,
                   pageVars, loaded>>

\* the plugin is loaded with the default or a stored homepage path, and a
\* note or an empty tab is open
InitWorkspace ==
    /\ files = <<HomeNote, TFile(<<"c", ".", "m", "d">>, 3, <<>>, NoFrontmatter, <<>>)>>
    /\ folders = <<>>
    /\ \E path \in {DefaultHomepageFilePath, <<>>} :
          settings = LoadSettings([homepageFilePath |-> path,
                                   showDailyDisplay |-> FALSE,
                                   showFolderGrid |-> FALSE,
                                   showVaultStats |-> FALSE,
                                   showTodoSidebarSection |-> FALSE,
                                   showTodoNotes |-> FALSE,
                                   showRecentEdits |-> FALSE,
                                   showQuickAccess |-> FALSE])
    /\ locale = "en"
    /\ clock = 0
    /\ dailyOut = Unrendered
    /\ dailyPrev = Unrendered
    /\ gridOut = Unrendered
    /\ todoOut = Unrendered
    /\ todoNotesOut = Unrendered
    /\ statsOut = Unrendered
    /\ tagsOut = Unrendered
    /\ unreadable = {}
    /\ renders = <<>>
    /\ attached = 0
    /\ InitPage
    /\ \E leaf \in {Leaf("markdown", DefaultHomepageFilePath, <<>>, FALSE),
                   Leaf("markdown", <<"c", ".", "m", "d">>, <<>>, FALSE),
                   Leaf("empty", <<>>, <<>>, FALSE)} :
          leaves = <<leaf>>
    /\ activeLeaf = 1
    /\ loaded = TRUE
    /\ bodyClass = CheckAndApplyHomepageStylesForLeaf(1, settings)

NextWorkspace ==
    \/ \E l \in 0..Len(leaves) : ActiveLeafChange(l)
    \/ \E path \in {DefaultHomepageFilePath, <<"c", ".", "m", "d">>} : OpenTab(path)
    \/ SetHomepageFilePath
    \/ NavigateToHomepage
    \/ \E l \in 1..Len(leaves) : OpenFileSettles(l)
    \/ Unload
    \/ Load

SpecWorkspace == InitWorkspace /\ [][NextWorkspace]_vars

\* C25: the homepage body class is present exactly when the active leaf is a
\* Markdown view whose file is the note of the configured homepage path, in
\* every state reached by active-leaf changes and changes of the homepage
\* path while the plugin is loaded; after unload the class is absent
C25_BodyClassIffHomepageActive ==
    /\ loaded => (bodyClass <=> CheckAndApplyHomepageStylesForLeaf(activeLeaf, settings))
    /\ ~loaded => ~bodyClass

\* the leaves that navigateToHomepage created for the homepage path
PluginHomepageLeaves ==
    {l \in 1..Len(leaves) :
        /\ leaves[l].byPlugin
        /\ settings.homepageFilePath \in {leaves[l].file, leaves[l].opening}}

\* C30: navigateToHomepage never opens a second homepage tab: after any
\* sequence of invocations, invocations made while an earlier openFile is
\* pending included, at most one leaf opened by the plugin shows or loads
\* the homepage
C30_AtMostOnePluginHomepageLeaf == Cardinality(PluginHomepageLeaves) <= 1

(***************************************************************************)
(* The vault changes while the task reads of a render are pending          *)
(***************************************************************************)

\* the note that is created while a render is in flight
CreatedNote == TFile(<<"n", ".", "m", "d">>, 9, <<>>, NoFrontmatter, <<>>)

\* the vault creates a note: getMarkdownFiles returns it from then on
CreateNote ==
    /\ ~IsTFilePath(CreatedNote.path)
    /\ files' = Append(files, CreatedNote)
    /\ UNCHANGED <<folders, settings, locale, clock, dailyOut, dailyPrev,
                   gridOut, todoOut, todoNotesOut, statsOut, tagsOut, unreadable,
                   renders, attached, pageVars, workspaceVars>>

\* the vault modifies the note of index i: its stat.mtime becomes the time of
\* the change
ModifyNote(i) ==
    /\ files[i].path = <<"b", ".", "m", "d">>
    /\ files[i].mtime < CreatedNote.mtime
    /\ files' = [files EXCEPT ![i].mtime = CreatedNote.mtime]
    /\ UNCHANGED <<folders, settings, locale, clock, dailyOut, dailyPrev,
                   gridOut, todoOut, todoNotesOut, statsOut, tagsOut, unreadable,
                   renders, attached, pageVars, workspaceVars>>

\* a render specification without daily note and without files in the word
\* count, so that the only reads of a render are its task reads
InitSnapshot ==
    /\ files = AsyncCatalog
    /\ folders = << <<"T", "e", "m", "p", "l", "a", "t", "e", "s">> >>
    /\ settings = [DefaultSettings EXCEPT
                      !.excludedTopFolders = <<"T", "e", "m", "p", "l", "a", "t", "e", "s">>,
                      !.excludedFromWordcount = <<"a", ".", "m", "d", ",", " ", "b", ".", "m", "d", ",", " ", "n", ".", "m", "d">>,
                      !.showDailyDisplay = FALSE,
                      !.showFolderGrid = FALSE,
                      !.todoSidebarSectionLimit = MaxLimit]
    /\ locale = "en"
    /\ clock = 0
    /\ dailyOut = Unrendered
    /\ dailyPrev = Unrendered
    /\ gridOut = Unrendered
    /\ todoOut = Unrendered
    /\ todoNotesOut = Unrendered
    /\ statsOut = Unrendered
    /\ tagsOut = Unrendered
    /\ unreadable \in UnreadableInputs
    /\ renders = <<>>
    /\ attached = 0
    /\ InitPage
    /\ InitOnHomepage

NextSnapshot ==
    \/ StartRender
    \/ \E id \in 1..Len(renders) : SettleTaskRead(id)
    \/ CreateNote
    \/ \E i \in 1..Len(files) : ModifyNote(i)

SpecSnapshot == InitSnapshot /\ [][NextSnapshot]_vars

\* C27: the sections of one render are computed from one snapshot of the
\* vault: when the homepage is no note of the vault and the limit of the
\* recent edits exceeds the note count of the vault stats, the recent edits
\* of a render list as many notes as its vault stats count, whatever note is
\* created while the task reads of the render are pending
C27_SectionsOfOneRenderAgree ==
    \A id \in 1..Len(renders) :
        LET tree == renders[id].tree
        IN  (/\ renders[id].pc = "done"
             /\ tree.stats.by = id /\ tree.stats.out.rendered
             /\ tree.recent.by = id /\ tree.recent.out.rendered
             /\ ~IsTFilePath(settings.homepageFilePath)
             /\ tree.stats.out.noteCount < settings.recentFilesLimitSidebar)
            => Len(tree.recent.out.notesToShow) = tree.stats.out.noteCount

(***************************************************************************)
(* The two query filters side by side                                      *)
(***************************************************************************)

\* the sidebar sources and the to-do notes query hold the same non-empty
\* query, and both sections are rendered from it
SameQueryRendered ==
    /\ todoOut.rendered
    /\ todoNotesOut.rendered
    /\ Trim(settings.todoSidebarSectionSources) = Trim(settings.todoTagQuery)
    /\ Trim(settings.todoTagQuery) # <<>>

\* C28: the two implementations of the query evaluation are equivalent: for
\* the same non-empty query the sidebar source filter and the to-do notes
\* filter select the same notes, before exclusions, sorting and limits
C28_FiltersSelectSameNotes ==
    SameQueryRendered => todoOut.relevant = todoNotesOut.filtered

\* the two filters select the same notes when no body tag of the vault
\* differs from the tag of the query by its case only and the lower-cased
\* query is no folder of the vault
FiltersAgreeWithoutTagCaseAndFolderLookup ==
    (/\ SameQueryRendered
     /\ \A i \in 1..Len(files) : \A j \in 1..Len(files[i].tags) :
           ToLowerCase(files[i].tags[j]) = SidebarSourcesQuery(settings)
              => files[i].tags[j] = SidebarSourcesQuery(settings)
     /\ ~IsTFolderPath(SidebarSourcesQuery(settings)))
    => todoOut.relevant = todoNotesOut.filtered

\* a state in which both filters have selected the same note for a tag query
FiltersAgreeOnSomeTagQuery ==
    /\ SameQueryRendered
    /\ SidebarQueryKind(SidebarSourcesQuery(settings)) = "tag"
    /\ todoOut.relevant = todoNotesOut.filtered
    /\ todoOut.relevant # <<>>
====
